---- MODULE Spec2Model ----
(***************************************************************************)
(* A model of picview.js: the PicViewInputDriver gesture recognizer and    *)
(* the PicViewMap view mapping.                                            *)
(*                                                                         *)
(* A property of a JavaScript object that may be undefined is modelled as  *)
(* a sequence of length zero (undefined) or one (the value).  Numbers are  *)
(* exact: the recognizer works on integers, the view mapping on rationals. *)
(***************************************************************************)
EXTENDS Integers, Sequences, FiniteSets, TLC

(***************************************************************************)
(* Bounds of the model and constants of the program                       *)
(***************************************************************************)

\* Number of view mapping calls (translate, zoom) in a behaviour.
MaxOps == 4

\* Significant bits of a number of the model (an IEEE double has 53).
MantissaBits == 13

\* PicView._max_enlarge: the maximum enlargement by zoom.
max_enlarge == 4

\* _dthr: the square of the distance the primary pointer may stray for a hold.
dthr == 100

\* Touch identifiers delivered by the touch listeners.
Touches == {"t1", "t2", "t3"}

\* The identifier the pointer listeners pass for the mouse.
Mouse == "mouse"

\* Client positions of the pointer events.
Positions == {<<10, 10>>, <<20, 10>>, <<30, 10>>, <<10, 20>>}

\* getBoundingClientRect() of the canvas: its origin in client space.
CanvasRect == [x |-> 10, y |-> 10]

\* width and height of the canvas.
CanvasSize == [width |-> 30, height |-> 20]

\* Values of (_ovx, _ovy) a driver is configured with.
OverlayConfigs == {<<0, 0>>, <<15, 0>>, <<-15, 5>>}

Undefined == <<>>

Def(v) == <<v>>

Val(o) == o[1]

\* The element of a set of one element: a value that is computed once.
The(S) == CHOOSE x \in S : TRUE

(***************************************************************************)
(* State                                                                   *)
(***************************************************************************)
VARIABLES
  active,     \* PicViewInputDriver._active: <<primary, secondary>>
  pcx, pcy,   \* last client position of the primary pointer
  bcx, bcy,   \* client position of the primary pointer when it went down
  bmaxd,      \* running maximum of the squared stray distance
  htime,      \* handle of the hold timeout
  dbl,        \* whether the drag ever went into double mode
  ovx, ovy,   \* overlay distances
  timers,     \* handles of the timeouts that are pending in the event loop
  emitted,    \* the callbacks the last handler invoked, in order
  threw,      \* whether the last handler raised an exception
  call,       \* the listener invocation of the last step
  obs,        \* what a client has observed of the callbacks so far
  view,       \* a PicViewMap: the current view
  fullv,      \* a PicViewMap: the fully zoomed-out view
  ret,        \* the last PicViewMap call and the value it returned
  ops,        \* number of PicViewMap calls so far
  hist,       \* where it is kept, the record of the zoom calls so far
  requested,       \* PicView._requested: a repaint is queued
  requested_fast,  \* PicView._requested_fast: the queued repaint is a preview
  dragstate,  \* PicView._dragstate
  repaints,   \* number of repaint timeouts pending in the event loop
  painted,    \* the last run of _handlePaint
  ended,      \* an end event was handled and nothing was painted since
  scrolled,   \* a scroll changed the view and nothing was painted since
  input,      \* the last step of the PicView and the state before it
  inputs,     \* number of steps of the PicView so far
  img,        \* PicView._img: the PicViewImage
  canvas      \* <<width, height>> of the canvas element

driverVars == <<active, pcx, pcy, bcx, bcy, bmaxd, htime, dbl, ovx, ovy,
                timers, emitted, threw, call, obs>>

mapVars == <<view, fullv, ret, ops, hist>>

picVars == <<requested, requested_fast, dragstate, repaints, painted, ended,
             scrolled, input, inputs, img, canvas>>

vars == <<driverVars, mapVars, picVars>>

(***************************************************************************)
(* PicViewInputDriver                                                      *)
(*                                                                         *)
(* The handlers are operators on a record d of the driver's properties,    *)
(* the pending timeouts, and out, the callbacks invoked so far.  PicView   *)
(* registers a callback for every event, so every callback is defined.     *)
(***************************************************************************)

Driver ==
  [active |-> active, pcx |-> pcx, pcy |-> pcy, bcx |-> bcx, bcy |-> bcy,
   bmaxd |-> bmaxd, htime |-> htime, dbl |-> dbl,
   timers |-> timers,
   out |-> <<>>, threw |-> FALSE]

Emit(d, ev) == [d EXCEPT !.out = Append(@, ev)]

mapPointerToCanvas(cx, cy) == <<cx - CanvasRect.x, cy - CanvasRect.y>>

closeSecondary(d) ==
  IF d.active[2] # Undefined
    THEN [Emit(d, <<"single">>) EXCEPT !.active[2] = Undefined]
    ELSE d

\* closePrimary without the clearTimeout of the hold timeout.
cancelHoldKeepTimer(d) ==
  IF d.htime # Undefined
    THEN [d EXCEPT !.htime = Undefined]
    ELSE d

cancelHold(d) ==
  IF d.htime # Undefined
    THEN [d EXCEPT !.timers = @ \ {Val(d.htime)}, !.htime = Undefined]
    ELSE d

\* closePrimary that does not close the secondary first.
closePrimaryOnly(d) ==
  IF d.active[1] # Undefined
    THEN [cancelHold(Emit(d, <<"end">>)) EXCEPT
            !.active[1] = Undefined,
            !.pcx = Undefined, !.pcy = Undefined,
            !.bcx = Undefined, !.bcy = Undefined,
            !.bmaxd = Undefined, !.dbl = Undefined]
    ELSE d

closePrimary(d) ==
  LET s == closeSecondary(d) IN
  IF s.active[1] # Undefined
    THEN [cancelHold(Emit(s, <<"end">>)) EXCEPT
            !.active[1] = Undefined,
            !.pcx = Undefined, !.pcy = Undefined,
            !.bcx = Undefined, !.bcy = Undefined,
            !.bmaxd = Undefined, !.dbl = Undefined]
    ELSE s

\* An overlay test that takes the union of the two sides for their
\* intersection.
isOverlayEither(ca) ==
  LET xin == IF ovx < 0 THEN ca[1] >= CanvasSize.width + ovx ELSE ca[1] <= ovx
      yin == IF ovy < 0 THEN ca[2] >= CanvasSize.height + ovy ELSE ca[2] <= ovy
  IN  IF ovx # 0 /\ ovy # 0 THEN xin \/ yin
      ELSE IF ovx # 0 THEN xin
      ELSE IF ovy # 0 THEN yin
      ELSE FALSE

\* The overlay test of a primary pointer down at canvas position ca.
isOverlay(ca) ==
  LET xin == IF ovx < 0 THEN ca[1] >= CanvasSize.width + ovx ELSE ca[1] <= ovx
      yin == IF ovy < 0 THEN ca[2] >= CanvasSize.height + ovy ELSE ca[2] <= ovy
  IN  IF ovx # 0 /\ ovy # 0 THEN xin /\ yin
      ELSE IF ovx # 0 THEN xin
      ELSE IF ovy # 0 THEN yin
      ELSE FALSE

\* The handle setTimeout returns: a positive integer that identifies the new
\* timeout among the pending ones.
NewHandle(pending) ==
  CHOOSE h \in 1..(Cardinality(pending) + 1) : h \notin pending

\* A set-up of a drag that leaves the stray distance and the double flag
\* as they are.
beginDragKeepStray(d, tid, cx, cy) ==
  LET ca == mapPointerToCanvas(cx, cy)
      h  == NewHandle(d.timers)
  IN
  Emit([d EXCEPT !.active[1] = Def(tid),
                 !.pcx = Def(cx), !.pcy = Def(cy),
                 !.bcx = Def(cx), !.bcy = Def(cy),
                 !.htime = Def(h),
                 !.timers = @ \cup {h}],
       <<"begin", ca[1], ca[2]>>)

\* Set up the state of a drag, arm the hold timeout and raise begin.
beginDrag(d, tid, cx, cy) ==
  LET ca == mapPointerToCanvas(cx, cy)
      h  == NewHandle(d.timers)
  IN
  Emit([d EXCEPT !.active[1] = Def(tid),
                 !.pcx = Def(cx), !.pcy = Def(cy),
                 !.bcx = Def(cx), !.bcy = Def(cy),
                 !.bmaxd = Def(0), !.dbl = Def(FALSE),
                 !.htime = Def(h),
                 !.timers = @ \cup {h}],
       <<"begin", ca[1], ca[2]>>)

\* An overlay click that falls through to the set-up of a drag.
overlayClickNoReturn(d, tid, cx, cy) ==
  LET ca == mapPointerToCanvas(cx, cy) IN
  beginDrag(Emit(d, <<"overlay", ca[1], ca[2]>>), tid, cx, cy)

overlayClick(d, tid, cx, cy) ==
  LET ca == mapPointerToCanvas(cx, cy) IN
  Emit(d, <<"overlay", ca[1], ca[2]>>)

\* A primary pointer down that does not close the drag in progress.
primaryDownNoClose(d, tid, cx, cy) ==
  IF isOverlay(mapPointerToCanvas(cx, cy))
    THEN overlayClick(d, tid, cx, cy)
    ELSE beginDrag(d, tid, cx, cy)

primaryDown(d, tid, cx, cy) ==
  LET c == closePrimary(d) IN
  IF isOverlay(mapPointerToCanvas(cx, cy))
    THEN overlayClick(c, tid, cx, cy)
    ELSE beginDrag(c, tid, cx, cy)

\* A secondary pointer down that does not close a secondary first.
secondaryDownNoClose(d, tid, cx, cy) ==
  LET a == cx - Val(d.pcx)
      b == cy - Val(d.pcy)
  IN  Emit([d EXCEPT !.dbl = Def(TRUE), !.active[2] = Def(tid)],
           <<"double", (a * a) + (b * b)>>)

\* A secondary pointer down that measures from where the primary went down.
secondaryDownFromBase(d, tid, cx, cy) ==
  LET c == closeSecondary(d)
      a == cx - Val(c.bcx)
      b == cy - Val(c.bcy)
  IN  Emit([c EXCEPT !.dbl = Def(TRUE), !.active[2] = Def(tid)],
           <<"double", (a * a) + (b * b)>>)

secondaryDown(d, tid, cx, cy) ==
  LET c == closeSecondary(d)
      a == cx - Val(c.pcx)
      b == cy - Val(c.pcy)
  IN  Emit([c EXCEPT !.dbl = Def(TRUE), !.active[2] = Def(tid)],
           <<"double", (a * a) + (b * b)>>)

\* A down that takes the mouse as a secondary like a touch, where a touch is
\* the primary.
handleTouchDownMouseSecondary(d, tid, cx, cy) ==
  IF tid = Mouse /\ d.active[2] # Undefined
    THEN d
  ELSE IF d.active[1] = Undefined THEN primaryDown(d, tid, cx, cy)
  ELSE IF d.active[1] = Def(tid) THEN primaryDown(d, tid, cx, cy)
  ELSE IF d.active[2] = Undefined THEN secondaryDown(d, tid, cx, cy)
  ELSE IF d.active[2] = Def(tid) THEN secondaryDown(d, tid, cx, cy)
  ELSE d

\* A down that takes a third pointer as the secondary.
handleTouchDownThird(d, tid, cx, cy) ==
  IF tid = Mouse /\ (d.active[2] # Undefined
                       \/ (d.active[1] # Undefined /\ d.active[1] # Def(Mouse)))
    THEN d
  ELSE IF d.active[1] = Undefined THEN primaryDown(d, tid, cx, cy)
  ELSE IF d.active[1] = Def(tid) THEN primaryDown(d, tid, cx, cy)
  ELSE secondaryDown(d, tid, cx, cy)

\* A down that does not set the mouse apart from the touches.
handleTouchDownAnyMouse(d, tid, cx, cy) ==
  IF d.active[1] = Undefined THEN primaryDown(d, tid, cx, cy)
  ELSE IF d.active[1] = Def(tid) THEN primaryDown(d, tid, cx, cy)
  ELSE IF d.active[2] = Undefined THEN secondaryDown(d, tid, cx, cy)
  ELSE IF d.active[2] = Def(tid) THEN secondaryDown(d, tid, cx, cy)
  ELSE d

handleTouchDown(d, tid, cx, cy) ==
  IF tid = Mouse /\ (d.active[2] # Undefined
                       \/ (d.active[1] # Undefined /\ d.active[1] # Def(Mouse)))
    THEN d
  ELSE IF d.active[1] = Undefined THEN primaryDown(d, tid, cx, cy)
  ELSE IF d.active[1] = Def(tid) THEN primaryDown(d, tid, cx, cy)
  ELSE IF d.active[2] = Undefined THEN secondaryDown(d, tid, cx, cy)
  ELSE IF d.active[2] = Def(tid) THEN secondaryDown(d, tid, cx, cy)
  ELSE d

\* The stray statistic that keeps the last distance, not the maximum.
maxStrayLast(m, dist) == Def(dist)

\* The update of _bmaxd on a move of the primary pointer.
maxStray(m, dist) == IF ~(m # Undefined /\ Val(m) >= dist) THEN Def(dist) ELSE m

\* A move that reports every motion of the mouse as a hover.
handleTouchMoveHoverAny(d, tid, cx, cy) ==
  LET ca == mapPointerToCanvas(cx, cy)
      h  == IF tid = Mouse
              THEN Emit(d, <<"hover", ca[1], ca[2]>>)
              ELSE d
  IN  IF Def(tid) = h.active[1]
        THEN LET a == cx - Val(h.bcx)
                 b == cy - Val(h.bcy)
             IN  Emit([h EXCEPT !.pcx = Def(cx), !.pcy = Def(cy),
                                !.bmaxd = maxStray(h.bmaxd, (a * a) + (b * b))],
                      <<"drag", ca[1], ca[2]>>)
      ELSE IF Def(tid) = h.active[2]
        THEN LET a == cx - Val(h.pcx)
                 b == cy - Val(h.pcy)
             IN  Emit(h, <<"zoom", (a * a) + (b * b)>>)
      ELSE h

handleTouchMove(d, tid, cx, cy) ==
  LET ca == mapPointerToCanvas(cx, cy)
      h  == IF tid = Mouse /\ d.active[1] = Undefined
              THEN Emit(d, <<"hover", ca[1], ca[2]>>)
              ELSE d
  IN  IF Def(tid) = h.active[1]
        THEN LET a == cx - Val(h.bcx)
                 b == cy - Val(h.bcy)
             IN  Emit([h EXCEPT !.pcx = Def(cx), !.pcy = Def(cy),
                                !.bmaxd = maxStray(h.bmaxd, (a * a) + (b * b))],
                      <<"drag", ca[1], ca[2]>>)
      ELSE IF Def(tid) = h.active[2]
        THEN LET a == cx - Val(h.pcx)
                 b == cy - Val(h.pcy)
             IN  Emit(h, <<"zoom", (a * a) + (b * b)>>)
      ELSE h

\* A release of the primary that closes the secondary alone.
handleTouchUpNoClose(d, tid, cx, cy) ==
  LET m == handleTouchMove(d, tid, cx, cy) IN
  IF Def(tid) = m.active[1]
    THEN closeSecondary(m)
    ELSE [m EXCEPT !.threw = TRUE]

\* A release that is not replayed as a move first.
handleTouchUpNoReplay(d, tid, cx, cy) ==
  IF Def(tid) = d.active[1]
    THEN closePrimary(d)
    ELSE [d EXCEPT !.threw = TRUE]

\* Evaluating tc.identifier and this._ptr.active raises an exception: tc is
\* not declared in _handleTouchUp and the driver has no _ptr property.
handleTouchUp(d, tid, cx, cy) ==
  LET m == handleTouchMove(d, tid, cx, cy) IN
  IF Def(tid) = m.active[1]
    THEN closePrimary(m)
    ELSE [m EXCEPT !.threw = TRUE]

\* The hold timeout that does not look at the double flag.
holdAllowedIgnoreDouble(d) ==
  ~(d.bmaxd # Undefined /\ Val(d.bmaxd) > dthr)

\* The hold timeout that takes a stray distance at the threshold as beyond it.
holdAllowedBelow(d) ==
  ~(d.dbl = Def(TRUE) \/ (d.bmaxd # Undefined /\ Val(d.bmaxd) >= dthr))

\* The test of the hold timeout on the double flag and the stray distance.
holdAllowed(d) ==
  ~(d.dbl = Def(TRUE) \/ (d.bmaxd # Undefined /\ Val(d.bmaxd) > dthr))

\* The function passed to setTimeout in _handleTouchDown.
holdTimeout(d) ==
  IF d.htime = Undefined THEN d
  ELSE IF ~holdAllowed(d) THEN d
  ELSE Emit(d, <<"hold">>)

(***************************************************************************)
(* The client's view of the callbacks: whether a drag is begun, whether it *)
(* is in double mode, where it began, and what has been seen in it.        *)
(***************************************************************************)
ObsInit ==
  [begun |-> FALSE, double |-> FALSE, base |-> Undefined,
   wentDouble |-> FALSE, strayed |-> FALSE,
   beginEndOk |-> TRUE, doubleSingleOk |-> TRUE,
   holdAfterDouble |-> FALSE, holdAfterStray |-> FALSE, holdOutside |-> FALSE,
   hoverInside |-> FALSE, overlayInside |-> FALSE]

DistSq(p, q) == ((p[1] - q[1]) * (p[1] - q[1])) + ((p[2] - q[2]) * (p[2] - q[2]))

Observe(o, ev) ==
  CASE ev[1] = "begin" ->
         [o EXCEPT !.beginEndOk = @ /\ ~o.begun, !.begun = TRUE,
                   !.base = Def(<<ev[2], ev[3]>>),
                   !.wentDouble = FALSE, !.strayed = FALSE]
    [] ev[1] = "end" ->
         [o EXCEPT !.beginEndOk = @ /\ o.begun, !.begun = FALSE,
                   !.base = Undefined,
                   !.wentDouble = FALSE, !.strayed = FALSE]
    [] ev[1] = "double" ->
         [o EXCEPT !.doubleSingleOk = @ /\ ~o.double, !.double = TRUE,
                   !.wentDouble = TRUE]
    [] ev[1] = "single" ->
         [o EXCEPT !.doubleSingleOk = @ /\ o.double, !.double = FALSE]
    [] ev[1] = "drag" ->
         [o EXCEPT !.strayed = @ \/ (o.base # Undefined
                        /\ DistSq(<<ev[2], ev[3]>>, Val(o.base)) > dthr)]
    [] ev[1] = "hold" ->
         [o EXCEPT !.holdAfterDouble = @ \/ o.wentDouble,
                   !.holdAfterStray = @ \/ o.strayed,
                   !.holdOutside = @ \/ ~o.begun]
    [] ev[1] = "hover" ->
         [o EXCEPT !.hoverInside = @ \/ o.begun]
    [] ev[1] = "overlay" ->
         [o EXCEPT !.overlayInside = @ \/ o.begun]
    [] OTHER -> o

RECURSIVE ObserveAll(_, _)
ObserveAll(o, evs) ==
  IF evs = <<>> THEN o ELSE ObserveAll(Observe(o, Head(evs)), Tail(evs))

(***************************************************************************)
(* The listeners: one action per event the browser delivers                *)
(***************************************************************************)

\* The state after a handler returned (or threw) with the driver as in d.
Commit(d, c) ==
  /\ active' = d.active
  /\ pcx' = d.pcx /\ pcy' = d.pcy
  /\ bcx' = d.bcx /\ bcy' = d.bcy
  /\ bmaxd' = d.bmaxd
  /\ htime' = d.htime
  /\ dbl' = d.dbl
  /\ timers' = d.timers
  /\ emitted' = d.out
  /\ threw' = d.threw
  /\ call' = c
  /\ obs' = ObserveAll(obs, d.out)
  /\ UNCHANGED <<ovx, ovy>>
  /\ UNCHANGED mapVars
  /\ UNCHANGED picVars

Ids == Touches \cup {Mouse}

\* A listener invocation: the handler, its arguments (or the handle of the
\* timeout that ran) and the pointers that were tracked before it.
Call(op, tid, cx, cy, h) ==
  [op |-> op, tid |-> tid, cx |-> cx, cy |-> cy, handle |-> h,
   before |-> active]

PointerDown(tid, cx, cy) ==
  \E d \in {handleTouchDown(Driver, tid, cx, cy)} :
    Commit(d, Call("down", tid, cx, cy, 0))

PointerMove(tid, cx, cy) ==
  \E d \in {handleTouchMove(Driver, tid, cx, cy)} :
    Commit(d, Call("move", tid, cx, cy, 0))

PointerUp(tid, cx, cy) ==
  \E d \in {handleTouchUp(Driver, tid, cx, cy)} :
    Commit(d, Call("up", tid, cx, cy, 0))

HoldTimeout(h) ==
  /\ h \in timers
  /\ \E d \in {holdTimeout([Driver EXCEPT !.timers = @ \ {h}])} :
       Commit(d, Call("timeout", "", 0, 0, h))

NoView == Undefined

DriverInit ==
  /\ active = <<Undefined, Undefined>>
  /\ pcx = Undefined /\ pcy = Undefined
  /\ bcx = Undefined /\ bcy = Undefined
  /\ bmaxd = Undefined
  /\ htime = Undefined
  /\ dbl = Undefined
  /\ timers = {}
  /\ emitted = <<>>
  /\ threw = FALSE
  /\ call = [op |-> "new", tid |-> "", cx |-> 0, cy |-> 0, handle |-> 0,
             before |-> <<Undefined, Undefined>>]
  /\ obs = ObsInit

(***************************************************************************)
(* Numbers of the view mapping: rationals <<numerator, denominator>> in    *)
(* lowest terms with a positive denominator.                               *)
(***************************************************************************)
Abs(n) == IF n < 0 THEN -n ELSE n

RECURSIVE Gcd(_, _)
Gcd(a, b) == IF b = 0 THEN a ELSE Gcd(b, a % b)

Rat(n, d) ==
  LET g == Gcd(Abs(n), Abs(d))
      s == IF d < 0 THEN -1 ELSE 1
  IN  <<(s * n) \div g, (s * d) \div g>>

Num(n) == <<n, 1>>

\* The operations divide out common factors before they multiply, so that
\* the products stay small.
RAdd(p, q) ==
  LET g == Gcd(p[2], q[2])
  IN  Rat((p[1] * (q[2] \div g)) + (q[1] * (p[2] \div g)), (p[2] \div g) * q[2])

RSub(p, q) ==
  LET g == Gcd(p[2], q[2])
  IN  Rat((p[1] * (q[2] \div g)) - (q[1] * (p[2] \div g)), (p[2] \div g) * q[2])

RMul(p, q) ==
  LET g == Gcd(Abs(p[1]), q[2])
      h == Gcd(Abs(q[1]), p[2])
  IN  Rat((p[1] \div g) * (q[1] \div h), (p[2] \div h) * (q[2] \div g))

RDiv(p, q) ==
  LET g == Gcd(p[2], q[2])
      h == Gcd(Abs(p[1]), Abs(q[1]))
  IN  Rat((p[1] \div h) * (q[2] \div g), (p[2] \div g) * (q[1] \div h))

RLe(p, q) ==
  LET g == Gcd(p[2], q[2])
  IN  p[1] * (q[2] \div g) <= q[1] * (p[2] \div g)

RLt(p, q) ==
  LET g == Gcd(p[2], q[2])
  IN  p[1] * (q[2] \div g) < q[1] * (p[2] \div g)

(***************************************************************************)
(* Numbers: binary floating point, rounded to nearest, ties to even.  A    *)
(* value is held as the exact fraction it stands for; every arithmetic     *)
(* operation of the program rounds its exact result to MantissaBits        *)
(* significant bits.  Comparisons are exact.                               *)
(***************************************************************************)
RECURSIVE Pow2(_)
Pow2(n) == IF n = 0 THEN 1 ELSE 2 * Pow2(n - 1)

\* The significands of the numbers are the integers from MantissaLow up to,
\* and not including, MantissaHigh.
MantissaHigh == Pow2(MantissaBits)

MantissaLow == Pow2(MantissaBits - 1)

\* Scale a / d into [MantissaLow, MantissaHigh): the scaled fraction and the
\* powers of two it was multiplied and divided by.
RECURSIVE FlScale(_, _, _, _)
FlScale(a, d, up, down) ==
  IF a \div d >= MantissaHigh
    THEN IF a % 2 = 0 THEN FlScale(a \div 2, d, up, 2 * down)
                      ELSE FlScale(a, 2 * d, up, 2 * down)
  ELSE IF a \div d < MantissaLow
    THEN IF d % 2 = 0 THEN FlScale(a, d \div 2, 2 * up, down)
                      ELSE FlScale(2 * a, d, 2 * up, down)
  ELSE <<a, d, up, down>>

\* The floating-point number nearest to the fraction q.  The operations
\* compute their operands and their exact result once.
Fl(q) ==
  IF q[1] = 0 THEN q
  ELSE The({LET m == s[1] \div s[2]
                 rem == s[1] % s[2]
                 up == 2 * rem > s[2] \/ (2 * rem = s[2] /\ m % 2 = 1)
                 r == IF up THEN m + 1 ELSE m
             IN  Rat((IF q[1] < 0 THEN 0 - r ELSE r) * s[4], s[3]) :
               s \in {FlScale(Abs(q[1]), q[2], 1, 1)}})

FAdd(p, q) == The({Fl(r) : r \in {RAdd(a, b) : a \in {p}, b \in {q}}})

FSub(p, q) == The({Fl(r) : r \in {RSub(a, b) : a \in {p}, b \in {q}}})

FMul(p, q) == The({Fl(r) : r \in {RMul(a, b) : a \in {p}, b \in {q}}})

FDiv(p, q) == The({Fl(r) : r \in {RDiv(a, b) : a \in {p}, b \in {q}}})

(***************************************************************************)
(* PicViewMap                                                              *)
(***************************************************************************)

\* new: the reference of an object that is none of the live objects.
NewObject(live) == CHOOSE o \in 1..(Cardinality(live) + 1) : o \notin live

\* The parameter check of the constructor: the exception thrown, if any.
invalidDimensions(cnv_w, cnv_h, img_w, img_h) ==
  IF \/ ~RLt(Num(0), cnv_w) \/ ~RLt(Num(0), cnv_h)
     \/ ~RLt(Num(0), img_w) \/ ~RLt(Num(0), img_h)
    THEN "Invalid dimensions!"
    ELSE ""

\* A constructor that scales an image that fits within the canvas up to it.
PicViewMapStretch(obj, cnv_w, cnv_h, img_w, img_h) ==
  LET sw == FDiv(img_w, cnv_w)
      sh == FDiv(img_h, cnv_h)
      sc == IF RLt(sw, sh) THEN sh ELSE sw
      scale == FDiv(Num(1), sc)
      rw == FMul(img_w, scale)
      rh == FMul(img_h, scale)
  IN  [obj |-> obj,
       canvas_width |-> cnv_w, canvas_height |-> cnv_h,
       image_width |-> img_w, image_height |-> img_h,
       dx |-> FDiv(FSub(cnv_w, rw), Num(2)),
       dy |-> FDiv(FSub(cnv_h, rh), Num(2)),
       dw |-> rw, dh |-> rh]

\* new PicViewMap(cnv_w, cnv_h, img_w, img_h), all greater than zero; obj is
\* the reference of the object constructed.
PicViewMap(obj, cnv_w, cnv_h, img_w, img_h) ==
  LET sw == FDiv(img_w, cnv_w)
      sh == FDiv(img_h, cnv_h)
      sc == IF RLt(sw, sh) THEN sh ELSE sw
      scale == IF RLe(sc, Num(1)) THEN Num(1) ELSE FDiv(Num(1), sc)
      rw == FMul(img_w, scale)
      rh == FMul(img_h, scale)
  IN  [obj |-> obj,
       canvas_width |-> cnv_w, canvas_height |-> cnv_h,
       image_width |-> img_w, image_height |-> img_h,
       dx |-> FDiv(FSub(cnv_w, rw), Num(2)),
       dy |-> FDiv(FSub(cnv_h, rh), Num(2)),
       dw |-> rw, dh |-> rh]

\* A copy of the width and the height alone.
copyFromSize(this, vw) == [this EXCEPT !.dw = vw.dw, !.dh = vw.dh]

copyFrom(this, vw) ==
  [this EXCEPT !.canvas_width = vw.canvas_width,
               !.canvas_height = vw.canvas_height,
               !.image_width = vw.image_width,
               !.image_height = vw.image_height,
               !.dx = vw.dx, !.dy = vw.dy, !.dw = vw.dw, !.dh = vw.dh]

equalTo(this, vw) ==
  /\ this.canvas_width = vw.canvas_width
  /\ this.canvas_height = vw.canvas_height
  /\ this.image_width = vw.image_width
  /\ this.image_height = vw.image_height
  /\ this.dx = vw.dx /\ this.dy = vw.dy
  /\ this.dw = vw.dw /\ this.dh = vw.dh

\* A copy that is the object copied itself.
makeCopySame(this) == this

\* makeCopy: a new object with the state of this one.
makeCopy(this) ==
  copyFrom(PicViewMap(NewObject({this.obj}),
                      this.canvas_width, this.canvas_height,
                      this.image_width, this.image_height), this)

\* The range adjustment of translate that leaves out the far boundary.
translateAdjustNearOnly(r, len, cnv) ==
  IF RLe(len, cnv) THEN FDiv(FSub(cnv, len), Num(2))
  ELSE IF RLt(Num(0), r) THEN Num(0) ELSE r

\* translate: adjust a coordinate r of a view of length len on an axis of
\* the canvas of length cnv to be in proper range.
translateAdjust(r, len, cnv) ==
  IF RLe(len, cnv) THEN FDiv(FSub(cnv, len), Num(2))
  ELSE LET r0 == IF RLt(Num(0), r) THEN Num(0) ELSE r
       IN  IF RLt(r0, FSub(cnv, len)) THEN FSub(cnv, len) ELSE r0

\* translate(new_x, new_y, last_x, last_y): the view and the value returned.
translate(this, new_x, new_y, last_x, last_y) ==
  LET disp_x == FSub(new_x, last_x)
      disp_y == FSub(new_y, last_y)
      rx == translateAdjust(FAdd(this.dx, disp_x), this.dw, this.canvas_width)
      ry == translateAdjust(FAdd(this.dy, disp_y), this.dh, this.canvas_height)
  IN  [view |-> [this EXCEPT !.dx = rx, !.dy = ry],
       changed |-> ~(this.dx = rx /\ this.dy = ry),
       error |-> ""]

\* zoom: the same adjustment, on the coordinates after the scaling.
zoomAdjust(r, len, cnv) ==
  IF RLe(len, cnv) THEN FDiv(FSub(cnv, len), Num(2))
  ELSE LET r0 == IF RLt(Num(0), r) THEN Num(0) ELSE r
       IN  IF RLt(r0, FSub(cnv, len)) THEN FSub(cnv, len) ELSE r0

\* A scaling that leaves the height as it is.
zoomScaleWidth(this, scale) ==
  LET new_w == FMul(this.dw, scale)
  IN  [this EXCEPT !.dx = zoomAdjust(this.dx, new_w, this.canvas_width),
                   !.dw = new_w]

\* The scaling of zoom by a factor other than one, with the adjustment.
zoomScale(this, scale) ==
  LET new_w == FMul(this.dw, scale)
      new_h == FMul(this.dh, scale)
      x == FAdd(this.dx,
                FDiv(FMul(FSub(this.canvas_width, FMul(Num(2), this.dx)),
                          FSub(this.dw, new_w)),
                     FMul(Num(2), this.dw)))
      y == FAdd(this.dy,
                FDiv(FMul(FSub(this.canvas_height, FMul(Num(2), this.dy)),
                          FSub(this.dh, new_h)),
                     FMul(Num(2), this.dh)))
  IN  [this EXCEPT !.dx = zoomAdjust(x, new_w, this.canvas_width),
                   !.dy = zoomAdjust(y, new_h, this.canvas_height),
                   !.dw = new_w, !.dh = new_h]

\* A test that leaves out the equal distances.
zoomNothingZeroOnly(new_d, last_d) == last_d = Num(0)

\* zoom: if last_d is zero, or new_d and last_d are equal, then do nothing.
zoomNothing(new_d, last_d) == last_d = Num(0) \/ last_d = new_d

\* A check that lets a call that does nothing pass.
zoomCheckUnlessNothing(this, new_d, last_d, max_s, full_v) ==
  IF zoomNothing(new_d, last_d) THEN ""
  ELSE IF RLt(new_d, Num(0)) \/ RLt(last_d, Num(0))
    THEN "Distances out of range!"
  ELSE IF RLt(max_s, Num(1)) THEN "Max scaling out of range!"
  ELSE IF \/ full_v.canvas_width # this.canvas_width
          \/ full_v.canvas_height # this.canvas_height
          \/ full_v.image_width # this.image_width
          \/ full_v.image_height # this.image_height
    THEN "Incompatible full view!"
  ELSE ""

\* zoom: the check of the parameters; the exception thrown, if any.
zoomCheck(this, new_d, last_d, max_s, full_v) ==
  IF RLt(new_d, Num(0)) \/ RLt(last_d, Num(0))
    THEN "Distances out of range!"
  ELSE IF RLt(max_s, Num(1)) THEN "Max scaling out of range!"
  ELSE IF \/ full_v.canvas_width # this.canvas_width
          \/ full_v.canvas_height # this.canvas_height
          \/ full_v.image_width # this.image_width
          \/ full_v.image_height # this.image_height
    THEN "Incompatible full view!"
  ELSE ""

\* zoom(new_d, last_d, max_s, full_v): the view and the value returned, or
\* the exception thrown.
zoom(this, new_d, last_d, max_s, full_v) ==
  IF zoomCheck(this, new_d, last_d, max_s, full_v) # ""
    THEN [view |-> this, changed |-> FALSE,
          error |-> zoomCheck(this, new_d, last_d, max_s, full_v)]
  ELSE IF zoomNothing(new_d, last_d)
    THEN [view |-> this, changed |-> FALSE, error |-> ""]
  ELSE
    LET wide == RLe(this.image_height, this.image_width)
        dim_i == IF wide THEN this.image_width ELSE this.image_height
        dim_f == IF wide THEN full_v.dw ELSE full_v.dh
        dim_v == IF wide THEN this.dw ELSE this.dh
        scale == FDiv(new_d, last_d)
        min_scale == FDiv(dim_f, dim_v)
        max_scale == FDiv(FMul(dim_i, max_s), dim_v)
        capped == IF RLe(max_scale, scale) THEN max_scale ELSE scale
    IN  IF RLe(scale, min_scale)
          THEN [view |-> copyFrom(this, full_v),
                changed |-> ~(full_v.dx = this.dx /\ full_v.dy = this.dy
                              /\ full_v.dw = this.dw /\ full_v.dh = this.dh),
                error |-> ""]
        ELSE IF capped = Num(1)
          THEN [view |-> this, changed |-> FALSE, error |-> ""]
        ELSE [view |-> zoomScale(this, capped), changed |-> TRUE, error |-> ""]

(***************************************************************************)
(* PicViewImage                                                            *)
(***************************************************************************)

\* PicViewImage._fastPix: the number of pixels of the preview bitmap.
fastPix == 76800

\* new PicViewImage(): no load was requested of the image element, no
\* bitmap is installed and no decoding is under way.  The element counts
\* the loads requested of it; natural is the size of the image it holds.
PicViewImage ==
  [genid |-> 0, bmpFull |-> Undefined, bmpFast |-> Undefined,
   img |-> [load |-> 0, src |-> <<0, 0>>, complete |-> FALSE,
            natural |-> <<0, 0>>],
   decodes |-> {}]

ready(this) == this.bmpFull # Undefined

getWidth(this) == Val(this.bmpFull).width

getHeight(this) == Val(this.bmpFull).height

\* Math.floor(Math.sqrt(q)) of a number q that is less than the square
\* of max.
floorSqrt(q, max) ==
  CHOOSE k \in 0..max :
    /\ k * k * q[2] <= q[1]
    /\ (k + 1) * (k + 1) * q[2] > q[1]

\* Math.floor(q) of a number that is not negative.
floor(q) == q[1] \div q[2]

\* Math.max(a, b)
max(a, b) == IF a >= b THEN a ELSE b

\* The size of the preview bitmap of an image of more than _fastPix pixels.
fastSize(width, height) ==
  LET ar == FDiv(Num(width), Num(height))
      h == The({floorSqrt(q, height) : q \in {FDiv(Num(fastPix), ar)}})
      w == floor(FMul(Num(h), ar))
  IN  <<max(w, 2), max(h, 2)>>

\* The bitmaps that are decoded from the image element, with the
\* generation there is when the decoding starts.
Decoding(this) ==
  [genid |-> this.genid, load |-> this.img.load,
   full |-> this.img.natural,
   fast |-> IF this.img.natural[1] * this.img.natural[2] > fastPix
              THEN Def(fastSize(this.img.natural[1], this.img.natural[2]))
              ELSE Undefined]

\* _handleImageLoad, the onload listener of the image element: the
\* decoding of the bitmaps is started.
handleImageLoad(this) ==
  IF this.img.complete /\ this.img.natural[1] > 0 /\ this.img.natural[2] > 0
    THEN [this EXCEPT !.decodes = @ \cup {Decoding(this)}]
    ELSE this

\* A bitmap, of the load of the image element it was decoded from.
Bitmap(load, size) == [load |-> load, width |-> size[1], height |-> size[2]]

\* The bitmaps decoded are installed.
installBitmaps(this, d) ==
  [this EXCEPT !.bmpFull = Def(Bitmap(d.load, d.full)),
               !.bmpFast = IF d.fast = Undefined THEN Undefined
                             ELSE Def(Bitmap(d.load, Val(d.fast)))]

\* Whether the bitmaps decoded are of an earlier generation than the
\* current one.
staleDecoding(this, d) == this.genid # d.genid

\* A load that leaves the generation as it is.
loadSameGeneration(this, src) ==
  [this EXCEPT !.bmpFull = Undefined, !.bmpFast = Undefined,
               !.img = [load |-> @.load + 1, src |-> src, complete |-> FALSE,
                        natural |-> <<0, 0>>]]

\* load(src): a new generation starts, the bitmaps are released and the
\* image element is given the source.
load(this, src) ==
  [this EXCEPT !.genid = @ + 1,
               !.bmpFull = Undefined, !.bmpFast = Undefined,
               !.img = [load |-> @.load + 1, src |-> src, complete |-> FALSE,
                        natural |-> <<0, 0>>]]

\* The image element has fetched its source.
fetched(this) ==
  [this EXCEPT !.img.complete = TRUE, !.img.natural = this.img.src]

(***************************************************************************)
(* PicView: the fields of the viewer after construction                    *)
(***************************************************************************)

\* The drag state outside a drag.
NoDrag ==
  [startx |-> Undefined, starty |-> Undefined, curx |-> Undefined,
   cury |-> Undefined, curd |-> Undefined, action |-> Undefined]

\* The record of a step of the viewer: the handler and its arguments, the
\* action it triggered, the exception it raised, what its call on the view
\* returned, and the repaint request, the drag state and the view as they
\* were before it.
Input(op, args, acted, error, changed) ==
  [op |-> op, args |-> args, acted |-> acted, error |-> error,
   changed |-> changed,
   requested |-> requested, requested_fast |-> requested_fast,
   repaints |-> repaints, dragstate |-> dragstate, view |-> view,
   img |-> img]

\* Sizes of the canvas element.
PicCanvases == {<<800, 600>>}

PicViewInit ==
  /\ requested = FALSE /\ requested_fast = FALSE
  /\ dragstate = NoDrag
  /\ repaints = 0
  /\ painted = Undefined
  /\ ended = FALSE
  /\ scrolled = FALSE
  /\ input = [op |-> "new", args |-> <<>>, acted |-> "", error |-> "",
              changed |-> FALSE,
              requested |-> FALSE, requested_fast |-> FALSE, repaints |-> 0,
              dragstate |-> NoDrag, view |-> Undefined, img |-> PicViewImage]
  /\ inputs = 0
  /\ canvas \in PicCanvases

(***************************************************************************)
(* Calls on a view and its full view                                       *)
(***************************************************************************)

\* Canvas and image dimensions <<cnv_w, cnv_h, img_w, img_h>> of the views.
Dimensions ==
  {<<8, 6, 16, 4>>, <<8, 6, 4, 12>>, <<8, 6, 4, 3>>, <<6, 6, 12, 12>>,
   <<2, 3, 3, 11>>, <<5, 10, 6, 7>>, <<800, 600, 1600, 400>>}

\* Dimensions that the constructor rejects.
InvalidDimensions == {<<0, 6, 4, 3>>, <<8, 6, 4, 0>>, <<8, 6, -4, 3>>}

\* Dimensions of the constructor calls that follow the first.
CreateArgs == InvalidDimensions \cup {<<6, 6, 12, 12>>, <<2, 3, 3, 11>>}

\* Arguments <<new_x, new_y, last_x, last_y>> of translate.
TranslateArgs ==
  {<<3, 0, 0, 0>>, <<0, 0, 3, 0>>, <<0, 5, 0, 0>>, <<0, 0, 0, 5>>,
   <<100, 100, 0, 0>>, <<0, 0, 100, 100>>, <<7, 7, 7, 7>>}

\* Arguments <<new_d, last_d>> of zoom.
ZoomArgs ==
  {<<2, 1>>, <<1, 2>>, <<3, 1>>, <<1, 3>>, <<3, 2>>, <<100, 1>>, <<0, 1>>,
   <<1, 0>>, <<5, 5>>}

\* Arguments <<new_d, last_d, max_s, full_v>> of zoom that it rejects; max_s
\* is a fraction, and full_v is "full" for the full view of the view and
\* "other" for the full view of another canvas.
InvalidZoomArgs ==
  {<<-1, 1, <<4, 1>>, "full">>, <<1, -1, <<4, 1>>, "full">>,
   <<2, 1, <<1, 2>>, "full">>, <<2, 1, <<4, 1>>, "other">>,
   <<1, 0, <<4, 1>>, "other">>, <<5, 5, <<4, 1>>, "other">>}

\* The record of a call: its name and arguments, the view before it, the
\* value returned and the exception thrown.
Ret(op, args, before, changed, error) ==
  [op |-> op, args |-> args, before |-> before,
   changed |-> changed, error |-> error]

\* The record of the zoom calls, after one more call: for each zoom call
\* made, the length of the view before it and the product of the ratios
\* new_d / last_d of that call and the zoom calls since.
Recorded(h, op, args, before, error) ==
  IF op # "zoom" \/ error # "" \/ args[2] = 0 THEN h
  ELSE LET ratio == Rat(args[1], args[2])
       IN  [i \in 1..Len(h) |-> [h[i] EXCEPT !.ratio = RMul(@, ratio)]]
             \o <<[length |-> IF RLe(before.image_height, before.image_width)
                                THEN before.dw ELSE before.dh,
                    ratio |-> ratio]>>

\* A call on the view object: the object is changed in place, for every
\* reference to it.
MapCommit(op, args, r) ==
  /\ view' = Def(r.view)
  /\ fullv' = IF fullv # Undefined /\ Val(fullv).obj = r.view.obj
                THEN Def(r.view) ELSE fullv
  /\ ret' = Ret(op, args, view, r.changed, r.error)
  /\ ops' = ops + 1
  /\ hist' = IF hist = Undefined THEN hist
              ELSE Def(Recorded(Val(hist), op, args, Val(view), r.error))
  /\ UNCHANGED driverVars
  /\ UNCHANGED picVars

Translate(a) ==
  /\ ops < MaxOps
  /\ view # Undefined
  /\ \E r \in {translate(Val(view), Num(a[1]), Num(a[2]), Num(a[3]),
                          Num(a[4]))} :
       MapCommit("translate", a, r)

Zoom(a) ==
  /\ ops < MaxOps
  /\ view # Undefined /\ fullv # Undefined
  /\ \E r \in {zoom(Val(view), Num(a[1]), Num(a[2]), Num(max_enlarge),
                     Val(fullv))} :
       MapCommit("zoom", <<a[1], a[2], <<max_enlarge, 1>>, "full">>, r)

\* The full view of a canvas one unit wider than that of the view.
otherFullView(this, live) ==
  PicViewMap(NewObject(live), FAdd(this.canvas_width, Num(1)),
             this.canvas_height, this.image_width, this.image_height)

ZoomInvalid(a) ==
  /\ ops < MaxOps
  /\ view # Undefined /\ fullv # Undefined
  /\ \E full_v \in {IF a[4] = "full" THEN Val(fullv)
                      ELSE otherFullView(Val(view),
                                         {Val(view).obj, Val(fullv).obj})} :
         \E r \in {zoom(Val(view), Num(a[1]), Num(a[2]), a[3], full_v)} :
           MapCommit("zoom", a, r)

\* The views of an image in a canvas are made: the full view, and the
\* current view as a copy of it.  Nothing is assigned when the constructor
\* throws.
Create(dm) ==
  /\ ops < MaxOps
  /\ LET err == invalidDimensions(Num(dm[1]), Num(dm[2]), Num(dm[3]), Num(dm[4]))
     IN  IF err # ""
           THEN /\ UNCHANGED <<view, fullv, hist>>
                /\ ret' = Ret("new", dm, view, FALSE, err)
           ELSE \E full_v \in {PicViewMap(NewObject({}), Num(dm[1]), Num(dm[2]),
                                          Num(dm[3]), Num(dm[4]))} :
                  /\ fullv' = Def(full_v)
                  /\ view' = Def(makeCopy(full_v))
                  /\ ret' = Ret("new", dm, view, FALSE, "")
                  /\ hist' = IF hist = Undefined THEN hist ELSE Def(<<>>)
  /\ ops' = ops + 1
  /\ UNCHANGED driverVars
  /\ UNCHANGED picVars

\* The views after construction, for each of the dimensions.
ViewsInit ==
  /\ DriverInit
  /\ PicViewInit
  /\ img = PicViewImage
  /\ ovx = 0 /\ ovy = 0
  /\ \E dm \in Dimensions :
       /\ fullv = Def(PicViewMap(NewObject({}), Num(dm[1]), Num(dm[2]),
                                 Num(dm[3]), Num(dm[4])))
       /\ view = Def(makeCopy(Val(fullv)))
       /\ ret = Ret("new", dm, Undefined, FALSE, "")
  /\ ops = 0

MapInit == ViewsInit /\ hist = Undefined

MapNext ==
  \/ \E a \in TranslateArgs : Translate(a)
  \/ \E a \in ZoomArgs : Zoom(a)
  \/ \E a \in InvalidZoomArgs : ZoomInvalid(a)
  \/ \E dm \in CreateArgs : Create(dm)

MapSpec == MapInit /\ [][MapNext]_vars

\* Sequences of zoom calls, with translate calls between them, of which the
\* record is kept.
SeqTranslateArgs == {<<3, 0, 0, 0>>, <<0, 0, 0, 5>>}

SeqZoomArgs == {<<2, 1>>, <<1, 2>>, <<3, 1>>, <<1, 3>>, <<3, 2>>, <<5, 5>>}

SeqInit == ViewsInit /\ hist = Def(<<>>)

SeqNext ==
  \/ \E a \in SeqTranslateArgs : Translate(a)
  \/ \E a \in SeqZoomArgs : Zoom(a)

SeqSpec == SeqInit /\ [][SeqNext]_vars

(***************************************************************************)
(* PicView: the handlers of the input events and the repaints              *)
(***************************************************************************)

\* Bound on the number of steps of the viewer.
MaxInputs == 6

\* PicView._dragstate.action_fence
action_fence == 40000

\* PicView._dragstate.zoom_fence
zoom_fence == 2500

\* PicView._scroll_scale
scroll_scale == FMul(FDiv(Num(1), Num(53)), Rat(3, 2))

\* The viewer, as a handler works on it; acted is the action the handler
\* triggered, error the exception that ended it and changed what its call
\* on the view returned.
PicView ==
  [view |-> view, fullv |-> fullv, requested |-> requested,
   requested_fast |-> requested_fast, dragstate |-> dragstate,
   repaints |-> repaints, painted |-> painted, ended |-> ended,
   scrolled |-> scrolled, img |-> img, canvas |-> canvas,
   acted |-> "", error |-> "", changed |-> FALSE]

\* A change of the current view, made in place.
mutateView(p, v) ==
  [p EXCEPT !.view = Def(v),
            !.fullv = IF @ # Undefined /\ Val(@).obj = v.obj THEN Def(v) ELSE @]

\* PicViewMap.check: whether the view is one of these dimensions.
check(this, cnv_w, cnv_h, img_w, img_h) ==
  /\ this.canvas_width = cnv_w /\ this.canvas_height = cnv_h
  /\ this.image_width = img_w /\ this.image_height = img_h

\* The full view of the image in the canvas is made, and the current view
\* as a copy of it.
resetViews(p, full_v) ==
  [p EXCEPT !.fullv = Def(full_v), !.view = Def(makeCopy(full_v))]

\* The full view of the image that is ready in the canvas as it is.
fullView(p) ==
  PicViewMap(NewObject({}), Num(p.canvas[1]), Num(p.canvas[2]),
             Num(getWidth(p.img)), Num(getHeight(p.img)))

\* The canvas is blanked.
blank(p, fast) ==
  [p EXCEPT !.painted = Def([fast |-> fast, ended |-> p.ended,
                             scrolled |-> p.scrolled, drawn |-> FALSE]),
            !.ended = FALSE, !.scrolled = FALSE]

\* The image is drawn in the current view.
drawImage(p) == [p EXCEPT !.painted = Def([Val(@) EXCEPT !.drawn = TRUE])]

\* _handlePaint: the canvas is blanked and, where the image is ready, the
\* image is drawn, in views that are made again if the size of the canvas
\* or of the image is not theirs.  The call of check on a view that is
\* undefined is a TypeError.
handlePaint(p, fast) ==
  IF ~ready(p.img) THEN blank(p, fast)
  ELSE IF p.view = Undefined THEN [blank(p, fast) EXCEPT !.error = "TypeError"]
  ELSE IF ~check(Val(p.view), Num(p.canvas[1]), Num(p.canvas[2]),
                 Num(getWidth(p.img)), Num(getHeight(p.img)))
    THEN The({drawImage(resetViews(blank(p, fast), full_v)) :
                full_v \in {fullView(p)}})
  ELSE drawImage(blank(p, fast))

\* PicView._handleImageLoad, the callback for the image that is ready.
imageReady(p) ==
  The({handlePaint(q, FALSE) :
         q \in {resetViews(p, full_v) : full_v \in {fullView(p)}}})

\* The completion of a decoding: unless a load was requested since it
\* started, the bitmaps are installed and the callback is invoked.
decoded(p, d) ==
  IF staleDecoding(p.img, d) THEN p
  ELSE imageReady([p EXCEPT !.img = installBitmaps(p.img, d),
                            !.acted = "ready"])

\* A loadImage that leaves the drag state as it is.
loadImageKeepDrag(p, src) ==
  The({IF q.error # "" THEN q
        ELSE [q EXCEPT !.img = load(q.img, src), !.acted = "load"] :
          q \in {handlePaint([p EXCEPT !.view = Undefined,
                                      !.fullv = Undefined], FALSE)}})

\* loadImage(src): the views are unloaded, the drag state is reset, the
\* canvas is blanked and the load of the image is started.
loadImage(p, src) ==
  The({IF q.error # "" THEN q
        ELSE [q EXCEPT !.img = load(q.img, src), !.acted = "load"] :
          q \in {handlePaint([p EXCEPT !.view = Undefined,
                                      !.fullv = Undefined,
                                      !.dragstate = NoDrag], FALSE)}})

\* The callback of a repaint timeout.
repaintTimeout(p) ==
  handlePaint([p EXCEPT !.requested = FALSE], p.requested_fast)

\* A repaint is queued in the event loop.
scheduleRepaint(p, fast) ==
  [p EXCEPT !.requested = TRUE, !.requested_fast = fast,
            !.repaints = @ + 1]

requestRepaintAlways(p, fast) == scheduleRepaint(p, fast)

\* A repaint is queued unless one is.
requestRepaint(p, fast) ==
  IF ~p.requested THEN scheduleRepaint(p, fast) ELSE p

\* The viewer after a call on its view returned r (or threw): a repaint
\* of the given quality is requested where the call changed the view.
viewCalled(p, r, fast) ==
  IF r.error # "" THEN [p EXCEPT !.error = r.error]
  ELSE IF r.changed
    THEN [requestRepaint(mutateView(p, r.view), fast) EXCEPT !.changed = TRUE]
  ELSE mutateView(p, r.view)

\* The distance between the pointers is recorded, unless the call threw.
setDistance(p, d) ==
  IF p.error # "" THEN p ELSE [p EXCEPT !.dragstate.curd = Def(d)]

inputBegin(p, x, y) ==
  IF p.view = Undefined THEN p
  ELSE [p EXCEPT !.dragstate =
          [startx |-> Def(x), starty |-> Def(y), curx |-> Def(x),
           cury |-> Def(y), curd |-> Undefined,
           action |-> IF equalTo(Val(p.view), Val(p.fullv))
                        THEN Def(FALSE) ELSE Undefined]]

inputEndKeepQuality(p) ==
  IF p.view = Undefined THEN p
  ELSE LET q == [p EXCEPT !.dragstate = NoDrag, !.ended = TRUE]
       IN  IF q.requested THEN q ELSE scheduleRepaint(q, FALSE)

inputEnd(p) ==
  IF p.view = Undefined THEN p
  ELSE LET q == [p EXCEPT !.dragstate = NoDrag, !.ended = TRUE]
       IN  IF q.requested THEN [q EXCEPT !.requested_fast = FALSE]
           ELSE scheduleRepaint(q, FALSE)

\* The parameter d is declared again as a local variable, which the
\* distance from the start of the drag is assigned to.
\* A double event that takes no account of the zoom fence.
inputDoubleAnyDistance(p, d) ==
  IF p.view = Undefined \/ p.dragstate.startx = Undefined THEN p
  ELSE IF p.dragstate.action # Undefined
    THEN IF Val(p.dragstate.action) THEN p
         ELSE LET a == Val(p.dragstate.curx) - Val(p.dragstate.startx)
                  b == Val(p.dragstate.cury) - Val(p.dragstate.starty)
                  dd == (a * a) + (b * b)
              IN  [p EXCEPT !.dragstate.action = Undefined,
                            !.dragstate.curd = Def(dd)]
    ELSE [p EXCEPT !.dragstate.curd = Def(d)]

inputDouble(p, d) ==
  IF p.view = Undefined \/ p.dragstate.startx = Undefined THEN p
  ELSE IF p.dragstate.action # Undefined
    THEN IF Val(p.dragstate.action) THEN p
         ELSE LET a == Val(p.dragstate.curx) - Val(p.dragstate.startx)
                  b == Val(p.dragstate.cury) - Val(p.dragstate.starty)
                  dd == (a * a) + (b * b)
              IN  IF dd > zoom_fence THEN p
                  ELSE [p EXCEPT !.dragstate.action = Undefined,
                                 !.dragstate.curd = Def(dd)]
    ELSE [p EXCEPT !.dragstate.curd = Def(d)]

inputSingle(p) ==
  IF p.view = Undefined THEN p
  ELSE [p EXCEPT !.dragstate.curd = Undefined]

\* A quadrant that takes a displacement of equal lengths as one in y.
quadrantTieY(a, b) ==
  IF Abs(a) > Abs(b) THEN (IF a >= 0 THEN "r" ELSE "l")
  ELSE (IF b >= 0 THEN "d" ELSE "u")

\* The quadrant of a displacement: right, left, down or up.
quadrant(a, b) ==
  IF Abs(a) >= Abs(b) THEN (IF a >= 0 THEN "r" ELSE "l")
  ELSE (IF b >= 0 THEN "d" ELSE "u")

\* A drag that does not look at whether an action was triggered.
inputDragRepeat(p, x, y) ==
  IF p.view = Undefined \/ p.dragstate.startx = Undefined THEN p
  ELSE IF p.dragstate.action # Undefined
    THEN LET q == [p EXCEPT !.dragstate.curx = Def(x),
                            !.dragstate.cury = Def(y)]
             a == x - Val(p.dragstate.startx)
             b == y - Val(p.dragstate.starty)
         IN  IF (a * a) + (b * b) >= action_fence
               THEN [q EXCEPT !.dragstate.action = Def(TRUE),
                              !.acted = quadrant(a, b)]
             ELSE q
    ELSE [viewCalled(p, translate(Val(p.view), Num(x), Num(y),
                                  Num(Val(p.dragstate.curx)),
                                  Num(Val(p.dragstate.cury))), TRUE)
            EXCEPT !.dragstate.curx = Def(x), !.dragstate.cury = Def(y)]

inputDrag(p, x, y) ==
  IF p.view = Undefined \/ p.dragstate.startx = Undefined THEN p
  ELSE IF p.dragstate.action # Undefined
    THEN LET q == [p EXCEPT !.dragstate.curx = Def(x),
                            !.dragstate.cury = Def(y)]
             a == x - Val(p.dragstate.startx)
             b == y - Val(p.dragstate.starty)
         IN  IF Val(p.dragstate.action) THEN q
             ELSE IF (a * a) + (b * b) >= action_fence
               THEN [q EXCEPT !.dragstate.action = Def(TRUE),
                              !.acted = quadrant(a, b)]
             ELSE q
    ELSE [viewCalled(p, translate(Val(p.view), Num(x), Num(y),
                                  Num(Val(p.dragstate.curx)),
                                  Num(Val(p.dragstate.cury))), TRUE)
            EXCEPT !.dragstate.curx = Def(x), !.dragstate.cury = Def(y)]

inputZoom(p, d) ==
  IF p.view = Undefined \/ p.dragstate.curd = Undefined THEN p
  ELSE setDistance(viewCalled(p, zoom(Val(p.view), Num(d),
                                      Num(Val(p.dragstate.curd)),
                                      Num(max_enlarge), Val(p.fullv)), TRUE),
                   d)

\* The ratio that a scroll of s stands for.
scrollRatio(s) ==
  IF s < 0 THEN FMul(Num(Abs(s)), scroll_scale)
  ELSE FDiv(Num(1), FMul(Num(s), scroll_scale))

\* The viewer after a scroll: whether it changed the view is kept until
\* the next repaint.
scrollCalled(p) == [p EXCEPT !.scrolled = @ \/ p.changed]

inputScroll(p, s) ==
  IF p.view = Undefined \/ s = 0 THEN p
  ELSE scrollCalled(viewCalled(p, zoom(Val(p.view), scrollRatio(s), Num(1),
                                       Num(max_enlarge), Val(p.fullv)),
                               FALSE))

\* The state after a handler of the viewer returned (or threw) with the
\* viewer as in p.
PicCommit(p, op, args) ==
  /\ inputs < MaxInputs
  /\ view' = p.view /\ fullv' = p.fullv
  /\ requested' = p.requested /\ requested_fast' = p.requested_fast
  /\ dragstate' = p.dragstate
  /\ repaints' = p.repaints
  /\ painted' = p.painted /\ ended' = p.ended /\ scrolled' = p.scrolled
  /\ img' = p.img /\ canvas' = p.canvas
  /\ input' = Input(op, args, p.acted, p.error, p.changed)
  /\ inputs' = inputs + 1
  /\ UNCHANGED <<driverVars, ret, ops, hist>>

InputBegin(x, y) ==
  \E p \in {inputBegin(PicView, x, y)} : PicCommit(p, "begin", <<x, y>>)

InputEnd == \E p \in {inputEnd(PicView)} : PicCommit(p, "end", <<>>)

InputDouble(d) ==
  \E p \in {inputDouble(PicView, d)} : PicCommit(p, "double", <<d>>)

InputSingle == \E p \in {inputSingle(PicView)} : PicCommit(p, "single", <<>>)

InputDrag(x, y) ==
  \E p \in {inputDrag(PicView, x, y)} : PicCommit(p, "drag", <<x, y>>)

InputZoom(d) ==
  \E p \in {inputZoom(PicView, d)} : PicCommit(p, "zoom", <<d>>)

InputScroll(s) ==
  \E p \in {inputScroll(PicView, s)} : PicCommit(p, "scroll", <<s>>)

\* A repaint timeout that is pending runs.
RepaintTimeout ==
  /\ repaints > 0
  /\ \E p \in {repaintTimeout([PicView EXCEPT !.repaints = @ - 1])} :
       PicCommit(p, "repaint", <<>>)

\* forcePaint, and the observer of the size of the canvas.
ForcePaint ==
  \E p \in {handlePaint(PicView, FALSE)} : PicCommit(p, "paint", <<>>)

LoadImage(src) ==
  \E p \in {loadImage(PicView, src)} : PicCommit(p, "load", <<src>>)

\* The load event of the image element, for the load requested last.
ImgOnload ==
  /\ img.img.load > 0 /\ ~img.img.complete
  /\ \E p \in {[PicView EXCEPT !.img = handleImageLoad(fetched(img))]} :
       PicCommit(p, "onload", <<>>)

\* The bitmaps of a decoding are there.
Decoded(d) ==
  /\ d \in img.decodes
  /\ \E p \in {decoded([PicView EXCEPT !.img.decodes = @ \ {d}], d)} :
       PicCommit(p, "decoded", <<d>>)

\* A decoding fails: the reason is logged.
DecodeFailed(d) ==
  /\ d \in img.decodes
  /\ \E p \in {[PicView EXCEPT !.img.decodes = @ \ {d}]} :
       PicCommit(p, "failed", <<d>>)

\* The page gives the canvas element another size.
Resize(size) ==
  /\ size # canvas
  /\ \E p \in {[PicView EXCEPT !.canvas = size]} :
       PicCommit(p, "resize", <<size>>)

\* The image of the viewer and the size of its canvas.
PicDimensions == {<<800, 600, 1600, 400>>}

\* Positions of the primary pointer, in the space of the canvas.
PicPositions == {<<100, 100>>, <<130, 100>>, <<100, 400>>}

\* Squares of the distance between the pointers.
PicDistances == {0, 100, 400}

\* Scrolls of the wheel.
PicScrolls == {-53, 0, 53}

\* The image after the one load of the viewer is through.
Loaded(natural) ==
  LET this == handleImageLoad(fetched(load(PicViewImage, natural)))
  IN  [installBitmaps(this, Decoding(this)) EXCEPT !.decodes = {}]

\* The viewer after the image was loaded.
PicInit ==
  /\ DriverInit
  /\ PicViewInit
  /\ ovx = 0 /\ ovy = 0
  /\ \E dm \in PicDimensions :
       /\ fullv = Def(PicViewMap(NewObject({}), Num(dm[1]), Num(dm[2]),
                                 Num(dm[3]), Num(dm[4])))
       /\ view = Def(makeCopy(Val(fullv)))
       /\ ret = Ret("new", dm, Undefined, FALSE, "")
       /\ img = Loaded(<<dm[3], dm[4]>>)
  /\ ops = 0
  /\ hist = Undefined

PicNext ==
  \/ \E xy \in PicPositions : InputBegin(xy[1], xy[2])
  \/ InputEnd
  \/ \E d \in PicDistances : InputDouble(d)
  \/ InputSingle
  \/ \E xy \in PicPositions : InputDrag(xy[1], xy[2])
  \/ \E d \in PicDistances : InputZoom(d)
  \/ \E s \in PicScrolls : InputScroll(s)
  \/ RepaintTimeout
  \/ ForcePaint

PicSpec == PicInit /\ [][PicNext]_vars

\* Drags that begin at SwipeStart and go to, within and beyond the action
\* fence and the zoom fence, along the axes and along the diagonals.
SwipeStart == <<300, 300>>

SwipePositions ==
  {<<300, 300>>, <<500, 300>>, <<100, 300>>, <<300, 500>>, <<300, 100>>,
   <<499, 300>>, <<442, 442>>, <<158, 442>>, <<442, 158>>, <<420, 460>>,
   <<350, 300>>, <<351, 300>>}

SwipeNext ==
  \/ InputBegin(SwipeStart[1], SwipeStart[2])
  \/ InputEnd
  \/ \E d \in PicDistances : InputDouble(d)
  \/ InputSingle
  \/ \E xy \in SwipePositions : InputDrag(xy[1], xy[2])
  \/ \E d \in PicDistances : InputZoom(d)

SwipeSpec == PicInit /\ [][SwipeNext]_vars

\* Sources of images, each the size of its image.
PicImages == {<<1600, 400>>, <<4, 3>>}

\* Sizes the page gives the canvas element.
PicResizes == {<<800, 600>>, <<400, 600>>}

\* The viewer after construction: no image was loaded.
LoadInit ==
  /\ DriverInit
  /\ PicViewInit
  /\ ovx = 0 /\ ovy = 0
  /\ view = Undefined /\ fullv = Undefined
  /\ img = PicViewImage
  /\ ret = Ret("new", <<>>, Undefined, FALSE, "") /\ ops = 0
  /\ hist = Undefined

LoadNext ==
  \/ \E src \in PicImages : LoadImage(src)
  \/ ImgOnload
  \/ \E d \in img.decodes : Decoded(d)
  \/ \E d \in img.decodes : DecodeFailed(d)
  \/ \E size \in PicResizes : Resize(size)
  \/ PicNext

LoadSpec == LoadInit /\ [][LoadNext]_vars

Init ==
  /\ DriverInit
  /\ PicViewInit
  /\ img = PicViewImage
  /\ \E ov \in OverlayConfigs : ovx = ov[1] /\ ovy = ov[2]
  /\ view = NoView /\ fullv = NoView
  /\ ret = Ret("new", <<>>, Undefined, FALSE, "") /\ ops = 0
  /\ hist = Undefined

Next ==
  \/ \E tid \in Ids, p \in Positions : PointerDown(tid, p[1], p[2])
  \/ \E tid \in Ids, p \in Positions : PointerMove(tid, p[1], p[2])
  \/ \E tid \in Ids, p \in Positions : PointerUp(tid, p[1], p[2])
  \/ \E h \in timers : HoldTimeout(h)

Spec == Init /\ [][Next]_vars

\* Pointer downs, for every side the overlay can be on and positions on, one
\* pixel within and one pixel beyond each of its borders.
OverlaySides == {-15, 0, 15} \X {-5, 0, 5}

OverlayPositions == {24, 25, 26} \X {14, 15, 16, 24, 25, 26}

OverlayInit ==
  /\ DriverInit
  /\ PicViewInit
  /\ img = PicViewImage
  /\ \E ov \in OverlaySides : ovx = ov[1] /\ ovy = ov[2]
  /\ view = NoView /\ fullv = NoView
  /\ ret = Ret("new", <<>>, Undefined, FALSE, "") /\ ops = 0
  /\ hist = Undefined

OverlayNext ==
  \E tid \in {"t1", Mouse}, p \in OverlayPositions : PointerDown(tid, p[1], p[2])

OverlaySpec == OverlayInit /\ [][OverlayNext]_vars

\* Pointers and positions of the behaviours checked for liveness.
LiveIds == {"t1", "t2", Mouse}

LivePositions == {<<10, 10>>, <<20, 10>>, <<30, 10>>}

\* The release of the pointer that is tracked as the primary.
PrimaryRelease ==
  \E p \in LivePositions :
    /\ active[1] # Undefined
    /\ PointerUp(Val(active[1]), p[1], p[2])

LiveNext ==
  \/ \E tid \in LiveIds, p \in LivePositions : PointerDown(tid, p[1], p[2])
  \/ \E tid \in LiveIds, p \in LivePositions : PointerMove(tid, p[1], p[2])
  \/ \E tid \in LiveIds, p \in LivePositions : PointerUp(tid, p[1], p[2])
  \/ \E h \in timers : HoldTimeout(h)

\* The release of the primary pointer is eventually delivered.
FairSpec == Init /\ [][LiveNext]_vars /\ WF_vars(PrimaryRelease)

(***************************************************************************)
(* Properties                                                              *)
(***************************************************************************)
HasEvent(evs, name) == \E i \in 1..Len(evs) : evs[i][1] = name

Count(evs, name) == Cardinality({i \in 1..Len(evs) : evs[i][1] = name})

Idle ==
  /\ active = <<Undefined, Undefined>>
  /\ pcx = Undefined /\ pcy = Undefined
  /\ bcx = Undefined /\ bcy = Undefined
  /\ bmaxd = Undefined /\ dbl = Undefined
  /\ htime = Undefined /\ timers = {}

\* C1: in the trace of callbacks begin and end alternate, starting with
\* begin, and a drag is begun exactly while a primary pointer is tracked.
BeginEndAlternate ==
  /\ obs.beginEndOk
  /\ obs.begun <=> active[1] # Undefined

\* A down of the tracked primary closed the drag and began a new one.
BeginAfterEnd ==
  /\ call.op = "down"
  /\ Len(emitted) = 2
  /\ emitted[1][1] = "end" /\ emitted[2][1] = "begin"

\* After the release of the pointer that was tracked as the primary, end
\* has been raised exactly once and the recognizer is idle.
ReleaseEnded ==
  (call.op = "up" /\ call.before[1] = Def(call.tid))
    => (Count(emitted, "end") = 1 /\ Idle)

\* C2: the release of the tracked primary raises end exactly once and
\* leaves the recognizer idle; when the release of the primary is
\* eventually delivered, every begun drag eventually ends.
ReleaseEndsDrag == []ReleaseEnded /\ (obs.begun ~> ~obs.begun)

\* The primary was released and the drag has ended.
PrimaryReleased ==
  /\ call.op = "up"
  /\ HasEvent(emitted, "end")
  /\ Idle

\* C3: the release of the tracked secondary raises single, clears the
\* secondary and leaves the primary and its drag as they are.
SecondaryReleaseGoesSingle ==
  (call.op = "up" /\ call.before[2] = Def(call.tid)
                  /\ call.before[1] # Def(call.tid))
    => /\ HasEvent(emitted, "single")
       /\ ~HasEvent(emitted, "end")
       /\ active[2] = Undefined
       /\ active[1] = call.before[1]
       /\ ~threw

\* C4: in the trace of callbacks double and single alternate, starting
\* with double, and the drag is in double mode exactly while a secondary
\* pointer is tracked.
DoubleSingleAlternate ==
  /\ obs.doubleSingleOk
  /\ obs.double <=> active[2] # Undefined

\* A down of the tracked secondary closed the double mode and entered it anew.
DoubleAfterSingle ==
  /\ call.op = "down"
  /\ Len(emitted) = 2
  /\ emitted[1][1] = "single" /\ emitted[2][1] = "double"

\* C5: hold is not raised in a drag in which double was raised.
NoHoldAfterDouble == ~obs.holdAfterDouble

\* The hold timeout of a drag that went double ran, the primary having
\* stayed within the threshold, and raised nothing.
TimeoutAfterDouble ==
  /\ call.op = "timeout"
  /\ htime = Def(call.handle)
  /\ obs.begun /\ obs.wentDouble /\ ~obs.strayed
  /\ emitted = <<>>

\* C6: hold is not raised in a drag in which some move of the primary was
\* further from the down position than the threshold.
NoHoldAfterStray == ~obs.holdAfterStray

\* The hold timeout of a drag without double ran after the primary strayed
\* and came back to where it went down, and raised nothing.
TimeoutAfterStray ==
  /\ call.op = "timeout"
  /\ htime = Def(call.handle)
  /\ obs.begun /\ obs.strayed /\ ~obs.wentDouble
  /\ pcx = bcx /\ pcy = bcy
  /\ emitted = <<>>

SecondaryImpliesPrimary ==
  /\ Len(active) = 2
  /\ active[2] # Undefined =>
       (active[1] # Undefined /\ active[1] # active[2])

\* Two pointers are tracked.
TwoTracked == active[1] # Undefined /\ active[2] # Undefined

\* The overlay region of the configuration, at canvas position (x, y).
InOverlayRegion(x, y) ==
  LET xhit == (ovx < 0 /\ x >= CanvasSize.width + ovx) \/ (ovx > 0 /\ x <= ovx)
      yhit == (ovy < 0 /\ y >= CanvasSize.height + ovy) \/ (ovy > 0 /\ y <= ovy)
  IN  \/ ovx # 0 /\ ovy # 0 /\ xhit /\ yhit
      \/ ovx # 0 /\ ovy = 0 /\ xhit
      \/ ovx = 0 /\ ovy # 0 /\ yhit

\* The last call was a down that is taken as a primary pointer down.
PrimaryCandidateDown ==
  /\ call.op = "down"
  /\ call.before[1] = Undefined \/ call.before[1] = Def(call.tid)
  /\ ~(call.tid = Mouse /\ call.before[2] # Undefined)

\* C9: a primary down inside the overlay region raises overlay with its
\* canvas position and no begin, and leaves the recognizer idle; a move
\* while no primary is tracked raises no drag.
OverlayDownStartsNoDrag ==
  /\ (/\ PrimaryCandidateDown
      /\ InOverlayRegion(call.cx - CanvasRect.x, call.cy - CanvasRect.y))
     => /\ emitted # <<>>
        /\ emitted[Len(emitted)]
             = <<"overlay", call.cx - CanvasRect.x, call.cy - CanvasRect.y>>
        /\ Count(emitted, "overlay") = 1
        /\ ~HasEvent(emitted, "begin")
        /\ Idle
  /\ (call.op = "move" /\ call.before[1] = Undefined)
       => ~HasEvent(emitted, "drag")

\* A primary down on the overlay closed the drag in progress and raised
\* overlay.
OverlayClicked ==
  /\ call.op = "down"
  /\ Len(emitted) = 2
  /\ emitted[1][1] = "end" /\ emitted[2][1] = "overlay"
  /\ Idle

\* The clamp rule on one axis: a view no longer than the canvas is
\* centered, a longer one covers the canvas.
Clamped(r, len, cnv) ==
  IF RLe(len, cnv)
    THEN r = FDiv(FSub(cnv, len), Num(2))
    ELSE RLe(FSub(cnv, len), r) /\ RLe(r, Num(0))

\* C10: after every translate and zoom from a new view, the clamp rule
\* holds on both axes for the current width and height.
ClampInvariant ==
  view # Undefined =>
    /\ Clamped(Val(view).dx, Val(view).dw, Val(view).canvas_width)
    /\ Clamped(Val(view).dy, Val(view).dh, Val(view).canvas_height)

\* A call left a view wider than the canvas strictly between the bounds.
ClampedInside ==
  /\ view # Undefined /\ ops > 0
  /\ RLt(Val(view).canvas_width, Val(view).dw)
  /\ RLt(FSub(Val(view).canvas_width, Val(view).dw), Val(view).dx)
  /\ RLt(Val(view).dx, Num(0))

\* The view of the last call, and its full view.
V == Val(view)

F == Val(fullv)

RAbs(p) == <<Abs(p[1]), p[2]>>

\* C11 as claimed: the width times the image height is the height times the
\* image width, in every view reached by construction, translate and zoom.
AspectExact ==
  view # Undefined =>
    FMul(V.dw, V.image_height) = FMul(V.dh, V.image_width)

\* C11: the two products differ by no more than the roundings of the calls
\* made: three units of the last place of the mantissa for the construction
\* and for each call.
AspectWithinRounding ==
  view # Undefined =>
    RLe(RMul(RAbs(RSub(RMul(V.dw, V.image_height), RMul(V.dh, V.image_width))),
             Num(MantissaHigh)),
        RMul(Num(3 * (ops + 1)), RMul(V.dh, V.image_width)))

\* A zoom scaled the view, and its two products differ.
AspectRounded ==
  /\ view # Undefined
  /\ ret.op = "zoom" /\ ret.changed
  /\ ~equalTo(V, F)
  /\ RMul(V.dw, V.image_height) # RMul(V.dh, V.image_width)

RMax(p, q) == IF RLt(p, q) THEN q ELSE p

RMin(p, q) == IF RLt(q, p) THEN q ELSE p

\* The scale of the full view: min(1, 1 / max(img_w / cnv_w, img_h / cnv_h)).
FullScale(v) ==
  RMin(Num(1),
       FDiv(Num(1), RMax(FDiv(v.image_width, v.canvas_width),
                         FDiv(v.image_height, v.canvas_height))))

\* The view is centered in its canvas.
Centered(v) ==
  /\ v.dx = FDiv(FSub(v.canvas_width, v.dw), Num(2))
  /\ v.dy = FDiv(FSub(v.canvas_height, v.dh), Num(2))

\* The view has the size of the image times the scale of the full view.
FullSize(v) ==
  /\ v.dw = FMul(v.image_width, FullScale(v))
  /\ v.dh = FMul(v.image_height, FullScale(v))

\* The scenario of a canvas of 800 by 600 and an image of 1600 by 400.
Scenario(v) ==
  (/\ v.canvas_width = Num(800) /\ v.canvas_height = Num(600)
   /\ v.image_width = Num(1600) /\ v.image_height = Num(400))
    => (v.dx = Num(0) /\ v.dy = Num(200) /\ v.dw = Num(800) /\ v.dh = Num(200))

\* C12: the view that the constructor returns is no larger than the canvas,
\* is centered, and has the size of the image times
\* min(1, 1 / max(img_w / cnv_w, img_h / cnv_h)).
CreateFitsCentered ==
  (fullv # Undefined /\ ret.op = "new" /\ ret.error = "") =>
    /\ RLe(V.dw, V.canvas_width) /\ RLe(V.dh, V.canvas_height)
    /\ Centered(V)
    /\ FullSize(V)
    /\ Scenario(V)

\* The last call constructed the view.
Created == view # Undefined /\ ret.op = "new" /\ ret.error = ""

\* C13 as claimed: a view that the constructor returns has the width or
\* the height of the canvas.
OneDimensionFills ==
  Created => (V.dw = V.canvas_width \/ V.dh = V.canvas_height)

\* The length len is the length cnv up to three roundings.
NearTo(len, cnv) ==
  RLe(RMul(RAbs(RSub(len, cnv)), Num(MantissaHigh)), RMul(Num(3), cnv))

\* C13: a view that the constructor returns has the size of the image when
\* the image fits within the canvas; otherwise its width or its height is
\* that of the canvas, up to rounding.
FillsUnlessImageFits ==
  Created =>
    IF RLe(V.image_width, V.canvas_width) /\ RLe(V.image_height, V.canvas_height)
      THEN V.dw = V.image_width /\ V.dh = V.image_height
      ELSE NearTo(V.dw, V.canvas_width) \/ NearTo(V.dh, V.canvas_height)

\* The view constructed is narrower and lower than the canvas.
SmallImageKeepsSize ==
  /\ Created
  /\ RLt(V.dw, V.canvas_width) /\ RLt(V.dh, V.canvas_height)

\* The image is at least as wide as it is high: zoom measures the width.
Wide(v) == RLe(v.image_height, v.image_width)

\* The length of the view on the longer axis of the image, and the natural
\* length of the image on that axis.
LongLength(v) == IF Wide(v) THEN v.dw ELSE v.dh

LongNatural(v) == IF Wide(v) THEN v.image_width ELSE v.image_height

\* C14: on the longer axis of the image the view is never shorter than the
\* full view and never longer than the image times the maximum scale.
ZoomWithinLimits ==
  (view # Undefined /\ fullv # Undefined) =>
    /\ RLe(LongLength(F), LongLength(V))
    /\ RLe(LongLength(V), FMul(LongNatural(V), Num(max_enlarge)))

ZoomedOutPastFull ==
  /\ ret.op = "zoom" /\ ret.error = ""
  /\ ret.args[2] # 0 /\ ret.args[1] # ret.args[2]
  /\ RLe(FDiv(Num(ret.args[1]), Num(ret.args[2])),
         FDiv(LongLength(F), LongLength(Val(ret.before))))

ValidZoom ==
  /\ ret.op = "zoom"
  /\ ret.args[1] >= 0 /\ ret.args[2] >= 0
  /\ RLe(Num(1), ret.args[3])
  /\ ret.args[4] = "full"

\* C16: a valid zoom with equal distances or with a last distance of zero
\* returns false and leaves the eight attributes of the view as they were.
ZoomNothingFrame ==
  (ValidZoom /\ (ret.args[1] = ret.args[2] \/ ret.args[2] = 0)) =>
    /\ ret.error = ""
    /\ ~ret.changed
    /\ equalTo(V, Val(ret.before))

\* A zoom with equal distances other than zero on a view that is zoomed in.
ZoomedNothing ==
  /\ ValidZoom
  /\ ret.args[1] = ret.args[2] /\ ret.args[2] # 0
  /\ RLt(LongLength(F), LongLength(V))

\* The distances of the last zoom call are not negative.
ZoomDistancesValid == ret.args[1] >= 0 /\ ret.args[2] >= 0

\* C17: zoom with the full view of other dimensions throws the exception
\* of the incompatible view, also when it would do nothing; zoom with a
\* negative distance or a maximum scale below one throws; the constructor
\* throws when a dimension is not greater than zero; and a call that throws
\* leaves the view as it was.
FailedCallFrame ==
  /\ (/\ ret.op = "zoom" /\ ZoomDistancesValid
      /\ RLe(Num(1), ret.args[3]) /\ ret.args[4] = "other")
       => ret.error = "Incompatible full view!"
  /\ (ret.op = "zoom" /\ ~ZoomDistancesValid)
       => ret.error = "Distances out of range!"
  /\ (ret.op = "zoom" /\ ZoomDistancesValid /\ RLt(ret.args[3], Num(1)))
       => ret.error = "Max scaling out of range!"
  /\ (/\ ret.op = "new" /\ Len(ret.args) = 4
      /\ \E i \in 1..4 : ret.args[i] <= 0)
       => ret.error = "Invalid dimensions!"
  /\ ret.error # "" =>
       /\ ~ret.changed
       /\ view = ret.before

\* A zoom that would do nothing was called with the full view of another
\* canvas on a view that is zoomed in, and threw.
IncompatibleNothingThrew ==
  /\ ret.op = "zoom" /\ ret.args[4] = "other"
  /\ ret.args[2] = 0 \/ ret.args[1] = ret.args[2]
  /\ ret.error = "Incompatible full view!"
  /\ RLt(LongLength(F), LongLength(V))

\* C18: the view and the full view are two objects, and no call on the view
\* changes the full view: it stays as the constructor made it.
FullViewUntouched ==
  (view # Undefined /\ fullv # Undefined) =>
    /\ V.obj # F.obj
    /\ equalTo(F, PicViewMap(F.obj, F.canvas_width, F.canvas_height,
                              F.image_width, F.image_height))

\* A zoom has copied the full view into the view, which was zoomed in.
CopiedFromFullView ==
  /\ ret.op = "zoom" /\ ret.changed
  /\ RLt(LongLength(F), LongLength(Val(ret.before)))
  /\ equalTo(V, F)
  /\ V.obj # F.obj

\* C19: at most one repaint timeout is pending at any time, and a step of
\* the viewer that leaves a pending repaint of full quality pending does not
\* turn it into a fast preview: a request made while a repaint is pending
\* only ever changes its quality from preview to full.
RepaintCoalesced ==
  /\ repaints <= 1
  /\ (requested <=> repaints = 1)
  /\ (input.repaints = 1 /\ repaints = 1 /\ ~input.requested_fast)
       => ~requested_fast

\* A drag or a zoom changed the view while a repaint of full quality was
\* pending.
ChangedWhileFullPending ==
  /\ input.op \in {"drag", "zoom"}
  /\ input.view # view
  /\ input.requested /\ ~input.requested_fast
  /\ repaints = 1

\* C20: with an image loaded, an end event clears the drag state and leaves
\* one repaint pending, of full quality; the pending repaint stays of full
\* quality until something is painted, and what is painted next after the
\* end event is painted in full quality.
EndRepaintsFull ==
  /\ (input.op = "end" /\ input.view # Undefined)
       => /\ dragstate = NoDrag
          /\ requested /\ ~requested_fast /\ repaints = 1
  /\ ended => (requested /\ ~requested_fast)
  /\ (painted # Undefined /\ Val(painted).ended) => ~Val(painted).fast

\* An end event came while a fast preview was pending.
EndUpgradedPreview ==
  /\ input.op = "end"
  /\ input.requested /\ input.requested_fast
  /\ ended /\ requested /\ ~requested_fast

\* C21: what is painted next after a scroll that changed the view is
\* painted in full quality, also where a fast preview was pending when the
\* scroll came.
ScrollRepaintsFull ==
  (painted # Undefined /\ Val(painted).scrolled) => ~Val(painted).fast

\* The square of the distance of the primary pointer from where the drag
\* started, in a drag state.
StrayedSq(ds) ==
  ((Val(ds.curx) - Val(ds.startx)) * (Val(ds.curx) - Val(ds.startx)))
    + ((Val(ds.cury) - Val(ds.starty)) * (Val(ds.cury) - Val(ds.starty)))

\* The last step was a double event that entered the zoom mode: in a drag
\* with an image loaded, either in the pan mode, or in the action mode with
\* no action triggered and the pointer within the zoom fence.
EnteredZoom ==
  /\ input.op = "double"
  /\ input.view # Undefined
  /\ input.dragstate.startx # Undefined
  /\ \/ input.dragstate.action = Undefined
     \/ /\ input.dragstate.action = Def(FALSE)
        /\ StrayedSq(input.dragstate) <= zoom_fence

\* C22: a double event that enters the zoom mode records the distance that
\* the event carries as the current distance.
DoubleRecordsDistance ==
  EnteredZoom => dragstate.curd = Def(input.args[1])

\* C23: a call of loadImage(src), whatever the state of the viewer and also
\* with an image ready and displayed, raises no error, unloads the current
\* and the full view, resets the drag state, blanks the canvas and starts
\* the load of src: the generation of the image is one more than it was,
\* its bitmaps are released and the image element is fetching src.
LoadImageStartsLoad ==
  input.op = "load" =>
    /\ input.error = ""
    /\ view = Undefined /\ fullv = Undefined
    /\ dragstate = NoDrag
    /\ painted # Undefined /\ ~Val(painted).drawn
    /\ img.genid = input.img.genid + 1
    /\ img.bmpFull = Undefined /\ img.bmpFast = Undefined
    /\ img.img.src = input.args[1] /\ ~img.img.complete
    /\ img.img.load = input.img.img.load + 1

\* C24: in every interleaving of load requests, load events and completions
\* of decodings, a completion whose generation is not the current one
\* installs no bitmap and does not invoke the ready callback; and whenever
\* the ready callback is invoked the image is ready and the bitmaps
\* installed are those of the load requested last.
StaleDecodingDropped ==
  /\ (input.op = "decoded" /\ input.args[1].genid # input.img.genid) =>
       /\ img.bmpFull = input.img.bmpFull
       /\ img.bmpFast = input.img.bmpFast
       /\ input.acted # "ready"
  /\ input.acted = "ready" =>
       /\ ready(img)
       /\ Val(img.bmpFull).load = img.img.load
       /\ <<getWidth(img), getHeight(img)>> = img.img.src
       /\ img.bmpFast # Undefined => Val(img.bmpFast).load = img.img.load

\* A decoding completes after another load was requested.
StaleDecodingCompleted ==
  /\ input.op = "decoded"
  /\ input.args[1].genid # input.img.genid
  /\ input.img.img.load > input.args[1].load

\* The callbacks that close the drag that was in progress before the last
\* call: single if a secondary was tracked, then end.
Closing ==
  (IF call.before[2] # Undefined THEN <<<<"single">>>> ELSE <<>>)
    \o <<<<"end">>>>

\* C25: a down of the pointer that is tracked as the primary (its up was
\* missed) raises single if a secondary was tracked, then end, and only then
\* begin, or overlay, for the new down; the timeout of the old drag is
\* cancelled, and after begin the stray distance is 0, the double flag is
\* false and the one pending timeout is that of the new drag.
MissedUpRestarts ==
  (PrimaryCandidateDown /\ call.before[1] = Def(call.tid)) =>
    LET ca == mapPointerToCanvas(call.cx, call.cy)
    IN  IF InOverlayRegion(ca[1], ca[2])
          THEN /\ emitted = Closing \o <<<<"overlay", ca[1], ca[2]>>>>
               /\ Idle
          ELSE /\ emitted = Closing \o <<<<"begin", ca[1], ca[2]>>>>
               /\ active = <<Def(call.tid), Undefined>>
               /\ pcx = Def(call.cx) /\ pcy = Def(call.cy)
               /\ bcx = Def(call.cx) /\ bcy = Def(call.cy)
               /\ bmaxd = Def(0) /\ dbl = Def(FALSE)
               /\ htime # Undefined /\ timers = {Val(htime)}

\* A down of the tracked primary, in a drag that was in double mode and
\* whose timeout was pending, closed both pointers and began a new drag.
MissedUpInDoubleMode ==
  /\ call.op = "down"
  /\ call.before[1] = Def(call.tid) /\ call.before[2] # Undefined
  /\ Len(emitted) = 3
  /\ emitted[1][1] = "single" /\ emitted[2][1] = "end"
  /\ emitted[3][1] = "begin"
  /\ dbl = Def(FALSE) /\ bmaxd = Def(0)

\* C26: the release of the primary while a secondary is tracked raises drag
\* with the position of the release, then single, then end, in this order
\* and nothing else; afterwards no pointer is tracked.
PrimaryReleaseOrder ==
  (call.op = "up" /\ call.before[1] = Def(call.tid)
                  /\ call.before[2] # Undefined) =>
    LET ca == mapPointerToCanvas(call.cx, call.cy)
    IN  /\ emitted = <<<<"drag", ca[1], ca[2]>>, <<"single">>, <<"end">>>>
        /\ ~threw
        /\ Idle

\* The primary was released in double mode, at another position than the
\* one it was at.
PrimaryReleasedInDoubleMode ==
  /\ call.op = "up"
  /\ call.before[1] = Def(call.tid) /\ call.before[2] # Undefined
  /\ Len(emitted) = 3 /\ emitted[1][1] = "drag"
  /\ active = <<Undefined, Undefined>>

\* The state of the recognizer: the pointers tracked, their positions, the
\* stray distance, the double flag and the hold timeout.
recognizer == <<active, pcx, pcy, bcx, bcy, bmaxd, dbl, htime, timers>>

\* A step that is a down of a pointer other than the two that are tracked.
ThirdContactDown ==
  /\ call'.op = "down"
  /\ active[1] # Undefined /\ active[1] # Def(call'.tid)
  /\ active[2] # Undefined /\ active[2] # Def(call'.tid)

\* C27: a down of a third pointer, while a primary and a secondary are
\* tracked and it is neither, raises no callback and no exception and
\* leaves the state of the recognizer as it is.
ThirdContactIgnored ==
  [][ThirdContactDown =>
       (emitted' = <<>> /\ ~threw' /\ UNCHANGED recognizer)]_vars

\* The last call was the down of a third touch, in a drag in double mode,
\* and raised nothing.
ThirdContactCameDown ==
  /\ call.op = "down" /\ call.tid \in Touches
  /\ call.before[1] # Undefined /\ call.before[1] # Def(call.tid)
  /\ call.before[2] # Undefined /\ call.before[2] # Def(call.tid)
  /\ active = call.before
  /\ emitted = <<>>

\* Whether a down of the mouse is left out: a secondary is tracked, or the
\* primary that is tracked is a touch.
MouseLeftOut ==
  \/ active[2] # Undefined
  \/ active[1] # Undefined /\ active[1] # Def(Mouse)

\* C28: a down of the mouse while a secondary is tracked or while the
\* tracked primary is a touch raises no callback and leaves the state of the
\* recognizer as it is; in the other states, with nothing tracked or with
\* the mouse alone tracked as the primary, it is taken as a primary down.
MouseDownFiltered ==
  [][(call'.op = "down" /\ call'.tid = Mouse) =>
       IF MouseLeftOut
         THEN emitted' = <<>> /\ ~threw' /\ UNCHANGED recognizer
         ELSE /\ emitted' # <<>>
              /\ emitted'[Len(emitted')][1] \in {"begin", "overlay"}
              /\ active'[2] = Undefined
              /\ active'[1] \in {Undefined, Def(Mouse)}]_vars

\* The last call was a down of the mouse while a touch was tracked as the
\* primary and no secondary was tracked, and raised nothing.
MouseDownDuringTouch ==
  /\ call.op = "down" /\ call.tid = Mouse
  /\ call.before[1] # Undefined /\ call.before[1] # Def(Mouse)
  /\ call.before[2] = Undefined
  /\ active = call.before
  /\ emitted = <<>>

DistancePassed ==
  /\ \A i \in 1..Len(emitted) :
       emitted[i][1] \in {"double", "zoom"} =>
         /\ pcx # Undefined /\ pcy # Undefined
         /\ emitted[i][2]
              = DistSq(<<call.cx, call.cy>>, <<Val(pcx), Val(pcy)>>)
  /\ (active[1] # Undefined
        /\ (HasEvent(emitted, "begin") \/ HasEvent(emitted, "drag")))
       => (pcx = Def(call.cx) /\ pcy = Def(call.cy))
  /\ secondaryDown([Driver EXCEPT !.active = <<Def("t1"), Undefined>>,
                                  !.pcx = Def(100), !.pcy = Def(100),
                                  !.bcx = Def(100), !.bcy = Def(100)],
                   "t2", 130, 140).out = <<<<"double", 2500>>>>

\* The position kept for the primary changes with begin, drag and end
\* alone.
PrimaryPositionKept ==
  (/\ ~HasEvent(emitted', "begin") /\ ~HasEvent(emitted', "drag")
   /\ ~HasEvent(emitted', "end"))
    => UNCHANGED <<pcx, pcy>>

\* C30: the number passed with every double and every zoom is the square of
\* the distance between the client position of the secondary in the event
\* and the last client position of the primary, which is that of its down
\* or of its latest move; a secondary down at (130, 140) with the primary
\* at (100, 100) raises double(2500).
DistanceFromPrimary == []DistancePassed /\ [][PrimaryPositionKept]_vars

\* A secondary went down after the primary had moved from where it went
\* down, and double was raised with the distance from where the primary is.
DoubleAfterPrimaryMoved ==
  /\ call.op = "down" /\ active[2] = Def(call.tid)
  /\ pcx # bcx
  /\ emitted = <<<<"double",
                   DistSq(<<call.cx, call.cy>>, <<Val(pcx), Val(pcy)>>)>>>>
  /\ emitted[1][2] # DistSq(<<call.cx, call.cy>>, <<Val(bcx), Val(bcy)>>)

\* C31: a primary down at canvas position (x, y) is taken as a click on the
\* overlay exactly when both ovx and ovy are not zero and the tests of both
\* axes pass, or ovx alone is not zero and the test of x passes, or ovy alone
\* is not zero and the test of y passes, the test of x being ovx < 0 and
\* x >= width + ovx, or ovx > 0 and x <= ovx, and likewise for y; with both
\* zero it is never taken as one.
OverlayHitTest ==
  PrimaryCandidateDown =>
    LET ca == mapPointerToCanvas(call.cx, call.cy)
    IN  /\ HasEvent(emitted, "overlay") <=> InOverlayRegion(ca[1], ca[2])
        /\ HasEvent(emitted, "begin") <=> ~InOverlayRegion(ca[1], ca[2])
        /\ (ovx = 0 /\ ovy = 0) => ~HasEvent(emitted, "overlay")

\* With both sides configured, a primary down on the border of the one and
\* one pixel beyond the border of the other began a drag.
DownBesideOverlayCorner ==
  /\ PrimaryCandidateDown
  /\ ovx = 15 /\ ovy = -5
  /\ mapPointerToCanvas(call.cx, call.cy) = <<15, 14>>
  /\ emitted = <<<<"begin", 15, 14>>>>

\* C32: hover and overlay are never raised between a begin and its end:
\* hover is raised only for motion of the mouse while no primary pointer is
\* tracked, and a primary down on the overlay while a drag is open raises
\* end before it raises overlay.
NoHoverOrOverlayInDrag ==
  /\ ~obs.hoverInside /\ ~obs.overlayInside
  /\ obs.begun <=> active[1] # Undefined
  /\ HasEvent(emitted, "hover") =>
       /\ call.tid = Mouse /\ call.op \in {"move", "up"}
       /\ call.before[1] = Undefined
       /\ emitted = <<<<"hover", mapPointerToCanvas(call.cx, call.cy)[1],
                        mapPointerToCanvas(call.cx, call.cy)[2]>>>>
  /\ (call.op = "move" /\ call.tid = Mouse /\ call.before[1] = Undefined) =>
       HasEvent(emitted, "hover")
  /\ (call.op = "move" /\ call.before[1] # Undefined) => ~HasEvent(emitted, "hover")
  /\ (HasEvent(emitted, "overlay") /\ call.before[1] # Undefined) =>
       /\ Len(emitted) >= 2
       /\ emitted[Len(emitted)][1] = "overlay"
       /\ emitted[Len(emitted) - 1] = <<"end">>
       /\ Count(emitted, "end") = 1
  /\ HasEvent(emitted, "overlay") => ~obs.begun

\* A primary down on the overlay came while a drag was open; it closed the
\* drag and then raised overlay.
OverlayDownClosedDrag ==
  /\ call.op = "down"
  /\ call.before[1] = Def(call.tid)
  /\ Len(emitted) = 2
  /\ emitted[1] = <<"end">>
  /\ emitted[2][1] = "overlay"
  /\ ~obs.begun

\* The last call was a translate of the view B.
Translated == view # Undefined /\ ret.op = "translate" /\ ret.error = ""

B == Val(ret.before)

\* translate returns true exactly when dx or dy after the call differs from
\* before it, and changes no length of the view and no reference dimension.
TranslateReportsChange ==
  Translated =>
    /\ ret.changed <=> ~(V.dx = B.dx /\ V.dy = B.dy)
    /\ V.dw = B.dw /\ V.dh = B.dh
    /\ V.canvas_width = B.canvas_width /\ V.canvas_height = B.canvas_height
    /\ V.image_width = B.image_width /\ V.image_height = B.image_height

\* translate returns false on a view that is no larger than the canvas, and
\* leaves it as it is.
TranslateFittingUnmoved ==
  (Translated /\ RLe(B.dw, B.canvas_width) /\ RLe(B.dh, B.canvas_height)) =>
    (~ret.changed /\ equalTo(V, B))

\* C33: translate returns true exactly when (dx, dy) after the call differs
\* from before it and never changes dw, dh or the reference dimensions; on a
\* view with dw <= canvas width and dh <= canvas height, such as every full
\* view, it returns false and leaves the view unchanged, for every
\* displacement.
TranslateFrame ==
  /\ TranslateReportsChange
  /\ TranslateFittingUnmoved
  /\ (Translated /\ equalTo(B, F)) => (~ret.changed /\ equalTo(V, B))

\* translate moved a full view.
FullViewTranslated ==
  /\ Translated /\ equalTo(B, F)
  /\ ret.changed /\ ~equalTo(V, F)

\* The actions that a drag triggers: swipe right, swipe left, the request to
\* leave the full screen and the request to enter it.
Actions == {"r", "l", "d", "u"}

\* The last step was an event of an open drag that began in the full view:
\* the viewer was in the action mode before it.
InActionMode ==
  /\ input.view # Undefined
  /\ input.dragstate.startx # Undefined
  /\ input.dragstate.action # Undefined

\* C34: in a drag that began in the full view at most one action is
\* triggered between begin and end: an action is triggered only by a drag
\* event with no action triggered before it in the drag, and sets the flag;
\* the flag stays set until the next begin or end (or until another image
\* is loaded, which closes the drag for the viewer); with the flag set a drag
\* event only updates the current position; and no drag event in the action
\* mode calls translate: the view and the repaint request stay as they are.
OneActionPerDrag ==
  /\ input.acted \in Actions =>
       /\ input.op = "drag" /\ InActionMode
       /\ input.dragstate.action = Def(FALSE)
       /\ dragstate.action = Def(TRUE)
  /\ (input.dragstate.action = Def(TRUE)
        /\ input.op \notin {"begin", "end", "load"}) =>
       /\ dragstate.action = Def(TRUE)
       /\ input.acted = ""
  /\ (input.op = "drag" /\ InActionMode /\ input.dragstate.action = Def(TRUE)) =>
       dragstate = [input.dragstate EXCEPT !.curx = Def(input.args[1]),
                                           !.cury = Def(input.args[2])]
  /\ (input.op = "drag" /\ InActionMode) =>
       /\ view = input.view /\ ~input.changed /\ input.error = ""
       /\ requested = input.requested /\ repaints = input.repaints
       /\ dragstate.curx = Def(input.args[1])
       /\ dragstate.cury = Def(input.args[2])
  /\ (input.op = "begin" /\ input.view # Undefined) =>
       (dragstate.action # Undefined <=> equalTo(Val(input.view), F))

\* After an action was triggered the pointer was dragged beyond the action
\* fence once more, and no action was triggered.
DraggedBeyondFenceAgain ==
  /\ input.op = "drag" /\ InActionMode
  /\ input.dragstate.action = Def(TRUE)
  /\ StrayedSq(dragstate) >= action_fence
  /\ input.acted = ""

\* C35: in the action mode with no action triggered, a drag to (x, y)
\* triggers an action exactly when the squared distance of (x, y) from the
\* start of the drag is 40000 or more; with dx, dy the displacement from the
\* start, it is swipe right when |dx| >= |dy| and dx >= 0, swipe left when
\* |dx| >= |dy| and dx < 0, the request to leave the full screen when
\* |dx| < |dy| and dy >= 0, and the request to enter it otherwise.
ActionByQuadrant ==
  (input.op = "drag" /\ InActionMode /\ input.dragstate.action = Def(FALSE)) =>
    LET dx == input.args[1] - Val(input.dragstate.startx)
        dy == input.args[2] - Val(input.dragstate.starty)
    IN  /\ input.acted \in Actions <=> (dx * dx) + (dy * dy) >= 40000
        /\ input.acted \in Actions \cup {""}
        /\ dragstate.action = Def(input.acted \in Actions)
        /\ input.acted = "r" => (Abs(dx) >= Abs(dy) /\ dx >= 0)
        /\ input.acted = "l" => (Abs(dx) >= Abs(dy) /\ dx < 0)
        /\ input.acted = "d" => (Abs(dx) < Abs(dy) /\ dy >= 0)
        /\ input.acted = "u" => (Abs(dx) < Abs(dy) /\ dy < 0)

\* A drag along the diagonal to the lower left, beyond the action fence,
\* triggered the swipe to the left.
SwipedOnDiagonal ==
  /\ input.op = "drag" /\ InActionMode
  /\ input.dragstate.action = Def(FALSE)
  /\ input.args = <<158, 442>>
  /\ input.dragstate.startx = Def(300) /\ input.dragstate.starty = Def(300)
  /\ input.acted = "l"

\* C36: a double event in the action mode leaves the viewer in the action
\* mode, with no distance recorded, if an action was triggered or the
\* squared distance from the start of the drag to the current position is
\* above 2500, so that the zoom events that follow leave the view as it is;
\* only with no action triggered and the distance at most 2500 does the
\* action flag become undefined, and then no action is triggered in the rest
\* of the drag.
DoubleInActionMode ==
  /\ (input.op = "double" /\ InActionMode) =>
       IF input.dragstate.action = Def(TRUE)
            \/ StrayedSq(input.dragstate) > 2500
         THEN /\ dragstate = input.dragstate
              /\ dragstate.action # Undefined /\ dragstate.curd = Undefined
         ELSE /\ dragstate.action = Undefined
              /\ dragstate.curd # Undefined
  /\ dragstate.action # Undefined => dragstate.curd = Undefined
  /\ (input.op = "zoom" /\ input.dragstate.curd = Undefined) =>
       /\ view = input.view /\ ~input.changed /\ dragstate = input.dragstate
       /\ requested = input.requested
  /\ (input.dragstate.action = Undefined /\ input.op # "begin") =>
       /\ dragstate.action = Undefined
       /\ input.acted \notin Actions
  /\ input.op \in {"double", "zoom", "single"} =>
       (input.acted = "" /\ input.error = "")

\* A double event one pixel beyond the zoom fence, with no action triggered,
\* was ignored.
DoubleBeyondZoomFence ==
  /\ input.op = "double" /\ InActionMode
  /\ input.dragstate.action = Def(FALSE)
  /\ StrayedSq(input.dragstate) = 2601
  /\ dragstate = input.dragstate

\* The callbacks of a drag: all but hover and overlay.
SessionEvents == {"begin", "end", "double", "single", "drag", "zoom", "hold"}

\* C37: an up or a cancel of an identifier that is neither the tracked
\* primary nor the tracked secondary (the release of a touch that clicked on
\* the overlay, of an ignored third contact, of the mouse with nothing
\* tracked) returns without an exception, raises no callback of a drag and
\* leaves the tracked pointers as they are, so that the touches after it in
\* the same event are handled.
UnmatchedUpIgnored ==
  (call.op = "up" /\ call.before[1] # Def(call.tid)
                  /\ call.before[2] # Def(call.tid)) =>
    /\ ~threw
    /\ \A i \in 1..Len(emitted) : emitted[i][1] \notin SessionEvents
    /\ active = call.before

\* The current view and the full view are both undefined, or both defined
\* for the same canvas and the same image.
ViewsPaired ==
  /\ view = Undefined <=> fullv = Undefined
  /\ view # Undefined =>
       check(V, F.canvas_width, F.canvas_height, F.image_width, F.image_height)

\* No zoom of the viewer fails for views of different dimensions.
ZoomCompatible ==
  input.op \in {"zoom", "scroll"} => input.error = ""

\* A repaint that runs while the image is ready finds the current view
\* defined.
RepaintHasView ==
  /\ (input.op \in {"paint", "repaint"} /\ ready(input.img)) =>
       input.view # Undefined
  /\ input.error # "TypeError"

\* C38: in every state of the viewer the current view and the full view are
\* both undefined or both defined with identical reference dimensions, so
\* that zoom never fails for incompatible views, and whenever a repaint runs
\* while the image is ready the current view is defined.
ViewsDefinedTogether ==
  /\ ViewsPaired
  /\ ZoomCompatible
  /\ RepaintHasView

\* C39: the identifier of the mouse is never that of the secondary pointer;
\* the secondary, when there is one, is a touch; and a down of the mouse
\* never raises double.
MouseNeverSecondary ==
  /\ active[2] # Def(Mouse)
  /\ active[2] # Undefined => Val(active[2]) \in Touches
  /\ (call.op = "down" /\ call.tid = Mouse) => ~HasEvent(emitted, "double")
  /\ HasEvent(emitted, "double") => (call.op = "down" /\ call.tid \in Touches)
  /\ HasEvent(emitted, "zoom") => call.tid \in Touches

\* The mouse went down while it was dragging (its up was missed): the drag
\* was closed and begun anew, and no double mode was entered.
MouseDownWhileDragging ==
  /\ call.op = "down" /\ call.tid = Mouse
  /\ call.before = <<Def(Mouse), Undefined>>
  /\ HasEvent(emitted, "end") /\ HasEvent(emitted, "begin")
  /\ active = <<Def(Mouse), Undefined>>

\* The last step was a drag, double or zoom event of a drag that the viewer
\* has not begun: no image was loaded when it began, or loadImage was called
\* since.
GestureWithoutBegin ==
  /\ input.op \in {"drag", "double", "zoom"}
  /\ input.view = Undefined \/ input.dragstate.startx = Undefined

\* C40: after loadImage is called in the middle of a drag, or when a drag
\* begins while no image is loaded, every drag, double and zoom event leaves
\* the view and the drag state as they are, and the drag state undefined,
\* until the next begin event with an image loaded, also if the image
\* becomes ready during the drag.
GesturesIgnoredUntilBegin ==
  /\ view = Undefined => dragstate = NoDrag
  /\ dragstate.startx = Undefined => dragstate = NoDrag
  /\ input.op = "load" => (view = Undefined /\ dragstate = NoDrag)
  /\ (input.op = "begin" /\ input.view = Undefined) => dragstate = NoDrag
  /\ GestureWithoutBegin =>
       /\ input.dragstate = NoDrag /\ dragstate = NoDrag
       /\ view = input.view
       /\ ~input.changed /\ input.error = "" /\ input.acted = ""
       /\ requested = input.requested /\ repaints = input.repaints
  /\ (input.dragstate = NoDrag /\ dragstate # NoDrag) =>
       (input.op = "begin" /\ input.view # Undefined)
  /\ input.op \in {"onload", "decoded", "failed", "resize", "paint", "repaint"} =>
       dragstate = input.dragstate

\* The image became ready during a drag that had begun with no image loaded,
\* and a drag event that followed was ignored.
DragAfterImageReady ==
  /\ GestureWithoutBegin /\ input.op = "drag"
  /\ input.view # Undefined /\ ready(input.img)
  /\ view = input.view /\ dragstate = NoDrag

====
